---------------------------- MODULE Spec2Model ----------------------------
(***************************************************************************)
(* Model of the scheme-extraction pipeline of jeevana-ux/data_extraction:  *)
(*   src/src/llm/dspy_pipeline.py  SchemeExtractionCoT, DSPySchemeExtractor *)
(*   src/src/llm/dspy_modules.py   SchemeExtractor                          *)
(*   src/src/llm/llm_client.py     OpenRouterLLM                            *)
(*   src/src/models.py             SchemeHeader, LLMResponse,               *)
(*                                 ExtractionResult.combined_body           *)
(*   src/build_scheme_header.py    build_scheme_header                      *)
(*                                                                         *)
(* Conventions.                                                            *)
(*  - A Python str that reaches the parser is a sequence of lexical items, *)
(*    each a pair <<class, payload>>: "c" a raw character, "p" a JSON      *)
(*    punctuation mark, "s" a JSON string literal, "n" a JSON number,      *)
(*    "k" one of the JSON words null, true, false.                         *)
(*  - A decoded JSON value is a pair <<type, payload>> with type one of    *)
(*    "null", "bool", "num", "str", "arr", "obj"; an object's payload is a *)
(*    function from its keys, an array's a sequence.                       *)
(*  - Numbers are fixed-point, held in tenths: 5 is 0.5 and 10 is 1.0.     *)
(*  - A Python call that may raise is an operator whose value is a record  *)
(*    with a field exc, "none" when the call returned.                     *)
(*  - A subject or a body, of which only the lengths matter, is a sequence *)
(*    of pieces [src, lo, hi]: characters lo..hi-1 of the part called src. *)
(***************************************************************************)
EXTENDS Integers, Sequences, FiniteSets, TLC

VARIABLES
    extractor,    \* which extract is running: "dspy", "basic" or "none"
    pc,           \* "idle", "ready", "waiting", "done"
    stage,        \* the stage of forward being run, 1..7 (0 outside forward)
    cot_steps,    \* forward's local list cot_steps
    schemes_json, \* extraction.schemes_json once stage 6 has returned
    outstanding,  \* stages whose port request is in flight
    requests,     \* the port requests issued by this attempt, in order, with their replies
    failure,      \* the exception that left forward's try block, or NoFailure
    fwd,          \* the dictionary forward returned, or NoForward
    response,     \* the LLMResponse extract returned, or NoResponse
    outcome,      \* how extract ended: "none", "returned", "raised"
    history,      \* OpenRouterLLM.history, shared by every attempt on the client
    attempts,     \* extract calls started on this client
    faults,       \* port behaviours other than the nominal one, so far
    clock,        \* the wall clock read by datetime.now
    p_kind,       \* parser under test: "dspy" (_parse_schemes_json) or "basic" (_parse_response)
    p_body,       \* the JSON text (or junk) the completion carries
    p_wrap,       \* how the completion wraps it
    p_defaults,   \* (default_confidence, default_escalation) handed to the parser
    p_pc,         \* "input", "parsed"
    p_out,        \* the parser's result on the wrapped completion
    p_direct,     \* the parser's result on p_body itself
    mail_subject, \* email_subject of the extract calls, as a text of pieces
    mail_body,    \* email_body of the extract calls, as a text of pieces
    scheme_data,  \* one per-scheme dictionary object, as its holder sees it
    mapped,       \* the mapper's results on scheme_data, in the order of the calls
    result,       \* the "schemes" list of the result call_llm returned
    rows,         \* the rows build_scheme_header made of result, one list per run
    threads,      \* the threads sharing the client: each one's position and locals
    reports       \* the dictionaries get_usage_stats returned, in order of return

attemptVars == <<extractor, pc, stage, cot_steps, schemes_json, outstanding,
                 requests, failure, fwd, response, outcome>>
clientVars == <<history, attempts, faults, clock>>
parserVars == <<p_kind, p_body, p_wrap, p_defaults, p_pc, p_out, p_direct>>
inputVars == <<mail_subject, mail_body>>
toolVars == <<scheme_data, mapped, result, rows>>
threadVars == <<threads, reports>>
auxVars == <<inputVars, toolVars, threadVars>>
vars == <<attemptVars, clientVars, parserVars, auxVars>>

---------------------------------------------------------------------------
\* Lexical items and the str operations of Python on them.

Ch(c) == <<"c", c>>
P(c) == <<"p", c>>
S(s) == <<"s", s>>
N(n) == <<"n", n>>
K(w) == <<"k", w>>

Space == Ch(" ")
Newline == Ch("nl")
Backtick == Ch("bq")

IsSpace(t) == t \in {Space, Newline}

Fence == <<Backtick, Backtick, Backtick>>
FenceJson == Fence \o <<Ch("j"), Ch("s"), Ch("o"), Ch("n")>>
FenceJSON == Fence \o <<Ch("J"), Ch("S"), Ch("O"), Ch("N")>>

\* s[n:]
DropFirst(s, n) == IF n >= Len(s) THEN <<>> ELSE SubSeq(s, n + 1, Len(s))
\* s[:-n]
DropLast(s, n) == IF n >= Len(s) THEN <<>> ELSE SubSeq(s, 1, Len(s) - n)

StartsWith(s, pre) == Len(s) >= Len(pre) /\ SubSeq(s, 1, Len(pre)) = pre
EndsWith(s, suf) ==
    Len(s) >= Len(suf) /\ SubSeq(s, Len(s) - Len(suf) + 1, Len(s)) = suf

RECURSIVE LStrip(_)
LStrip(s) == IF s # <<>> /\ IsSpace(Head(s)) THEN LStrip(Tail(s)) ELSE s

RECURSIVE RStrip(_)
RStrip(s) ==
    IF s # <<>> /\ IsSpace(s[Len(s)]) THEN RStrip(DropLast(s, 1)) ELSE s

Strip(s) == RStrip(LStrip(s))

---------------------------------------------------------------------------
\* Decoded JSON values and json.loads.

Null == <<"null", "">>
Bool(b) == <<"bool", b>>
Num(n) == <<"num", n>>
Str(s) == <<"str", s>>
Arr(items) == <<"arr", items>>
Obj(members) == <<"obj", members>>

TypeOf(v) == v[1]

NoParse == [ok |-> FALSE, val |-> Null, next |-> 0]

\* dict item assignment d[k] = v (a repeated JSON key keeps its last value)
DictSet(d, k, v) == [x \in DOMAIN d \cup {k} |-> IF x = k THEN v ELSE d[x]]

RECURSIVE ParseValue(_, _)
RECURSIVE ParseElems(_, _, _)
RECURSIVE ParseMembers(_, _, _)

\* the value that starts at toks[i]
ParseValue(toks, i) ==
    IF i > Len(toks) THEN NoParse
    ELSE LET t == toks[i] IN
         CASE t[1] = "s" -> [ok |-> TRUE, val |-> Str(t[2]), next |-> i + 1]
           [] t[1] = "n" -> [ok |-> TRUE, val |-> Num(t[2]), next |-> i + 1]
           [] t[1] = "k" ->
                [ok |-> TRUE,
                 val |-> IF t[2] = "null" THEN Null ELSE Bool(t[2] = "true"),
                 next |-> i + 1]
           [] t[1] = "p" ->
                IF t[2] = "[" THEN
                    IF i + 1 <= Len(toks) /\ toks[i + 1] = P("]")
                    THEN [ok |-> TRUE, val |-> Arr(<<>>), next |-> i + 2]
                    ELSE ParseElems(toks, i + 1, <<>>)
                ELSE IF t[2] = "{" THEN
                    IF i + 1 <= Len(toks) /\ toks[i + 1] = P("}")
                    THEN [ok |-> TRUE, val |-> Obj(<<>>), next |-> i + 2]
                    ELSE ParseMembers(toks, i + 1, <<>>)
                ELSE NoParse
           [] OTHER -> NoParse

\* the elements of an array, the next one starting at toks[i]
ParseElems(toks, i, acc) ==
    LET r == ParseValue(toks, i) IN
    IF ~r.ok \/ r.next > Len(toks) THEN NoParse
    ELSE IF toks[r.next] = P(",")
         THEN ParseElems(toks, r.next + 1, Append(acc, r.val))
    ELSE IF toks[r.next] = P("]")
         THEN [ok |-> TRUE, val |-> Arr(Append(acc, r.val)), next |-> r.next + 1]
    ELSE NoParse

\* the members of an object, the next key at toks[i]
ParseMembers(toks, i, acc) ==
    IF i + 1 > Len(toks) \/ toks[i][1] # "s" \/ toks[i + 1] # P(":") THEN NoParse
    ELSE LET r == ParseValue(toks, i + 2) IN
         IF ~r.ok \/ r.next > Len(toks) THEN NoParse
         ELSE IF toks[r.next] = P(",")
              THEN ParseMembers(toks, r.next + 1, DictSet(acc, toks[i][2], r.val))
         ELSE IF toks[r.next] = P("}")
              THEN [ok |-> TRUE,
                    val |-> Obj(DictSet(acc, toks[i][2], r.val)),
                    next |-> r.next + 1]
         ELSE NoParse

\* json.loads(text): one value, whitespace allowed around every item, nothing after it
JsonLoads(text) ==
    LET toks == SelectSeq(text, LAMBDA t : ~IsSpace(t))
        r == ParseValue(toks, 1)
    IN  IF r.ok /\ r.next = Len(toks) + 1
        THEN [exc |-> "none", val |-> r.val]
        ELSE [exc |-> "JSONDecodeError", val |-> Null]

\* Python truthiness of a decoded value
Truthy(v) ==
    CASE TypeOf(v) = "null" -> FALSE
      [] TypeOf(v) = "bool" -> v[2]
      [] TypeOf(v) = "num" -> v[2] # 0
      [] TypeOf(v) = "str" -> v[2] # ""
      [] TypeOf(v) = "arr" -> v[2] # <<>>
      [] TypeOf(v) = "obj" -> DOMAIN v[2] # {}

\* d.get(k, dflt) on a dict
DictGet(d, k, dflt) == IF k \in DOMAIN d THEN d[k] ELSE dflt

---------------------------------------------------------------------------
\* SchemeHeader: the pydantic model and its validation (lax mode).

SchemeType == {"BUY_SIDE", "SELL_SIDE", "ONE_OFF", "OTHER"}
SchemeSubType ==
    {"PERIODIC_CLAIM", "PDC", "PUC_FDC", "COUPON", "SUPER_COIN", "PREXO",
     "BANK_OFFER", "LIFESTYLE", "ONE_OFF", "OTHER"}
DiscountType == {"PERCENTAGE", "FLAT", "SLAB", "OTHER"}

\* confidence: le=1.0, in tenths
ConfidenceMax == 10
\* data.get("confidence", 0.5), in tenths
FallbackConfidence == 5

\* the strings of the model that are ISO dates (YYYY-MM-DD)
IsIsoDate(s) == s \in {"2024-01-01", "2024-03-31"}
\* the strings of the model that lax validation reads as a number, with the number (in tenths)
NumericStr == [x \in {"7"} |-> 70]
\* the strings lax validation reads as a bool
BoolStr == [x \in {"true", "false"} |-> x = "true"]

Date(s) == <<"date", s>>

Invalid == [ok |-> FALSE, val |-> Null]
Valid(v) == [ok |-> TRUE, val |-> v]

\* VEnum with the membership test left out
VEnum_AnyStr(v, members) ==
    IF TypeOf(v) = "str" THEN Valid(v) ELSE Invalid

\* VEnum with a string that is no member read as OTHER
VEnum_FallThrough(v, members) ==
    IF TypeOf(v) = "str" THEN (IF v[2] \in members THEN Valid(v) ELSE Valid(Str("OTHER")))
    ELSE Invalid

\* a field of an Enum type whose values are `members`
VEnum(v, members) ==
    IF TypeOf(v) = "str" /\ v[2] \in members THEN Valid(v) ELSE Invalid

\* VStr of a field declared Optional[str]: None passes
VStr_AllowNone(v) == IF TypeOf(v) \in {"str", "null"} THEN Valid(v) ELSE Invalid

VStr(v) == IF TypeOf(v) = "str" THEN Valid(v) ELSE Invalid

VOptional(v, r) == IF v = Null THEN Valid(Null) ELSE r

\* date: an ISO string; every other input of the model is rejected
VDate(v) ==
    IF TypeOf(v) = "str" /\ IsIsoDate(v[2]) THEN Valid(Date(v[2])) ELSE Invalid

\* float: a number, a bool, or a numeric string
VFloat(v) ==
    CASE TypeOf(v) = "num" -> Valid(v)
      [] TypeOf(v) = "bool" -> Valid(Num(IF v[2] THEN 10 ELSE 0))
      [] TypeOf(v) = "str" ->
            IF v[2] \in DOMAIN NumericStr THEN Valid(Num(NumericStr[v[2]])) ELSE Invalid
      [] OTHER -> Invalid

\* float with ge=lo
VFloatGe(v, lo) ==
    LET r == VFloat(v) IN IF r.ok /\ r.val[2] >= lo THEN r ELSE Invalid

\* VFloatRange with the le bound left out
VFloatRange_NoUpper(v, lo, hi) ==
    LET r == VFloat(v) IN IF r.ok /\ r.val[2] >= lo THEN r ELSE Invalid

\* float with ge=lo, le=hi
VFloatRange(v, lo, hi) ==
    LET r == VFloat(v) IN
    IF r.ok /\ r.val[2] >= lo /\ r.val[2] <= hi THEN r ELSE Invalid

\* bool: a bool, the numbers 0 and 1, or one of the bool strings
VBool(v) ==
    CASE TypeOf(v) = "bool" -> Valid(v)
      [] TypeOf(v) = "num" ->
            IF v[2] \in {0, 10} THEN Valid(Bool(v[2] = 10)) ELSE Invalid
      [] TypeOf(v) = "str" ->
            IF v[2] \in DOMAIN BoolStr THEN Valid(Bool(BoolStr[v[2]])) ELSE Invalid
      [] OTHER -> Invalid

SchemeHeaderFields ==
    {"scheme_type", "scheme_sub_type", "scheme_name", "duration_start_date",
     "duration_end_date", "starting_at", "ending_at", "price_drop_date",
     "discount_type", "discount_value", "min_order_value", "max_discount_cap",
     "vendor_name", "category", "remarks", "confidence", "needs_escalation"}

\* the validation of one keyword argument of SchemeHeader(...)
ValidateField(f, v) ==
    CASE f = "scheme_type" -> VEnum(v, SchemeType)
      [] f = "scheme_sub_type" -> VEnum(v, SchemeSubType)
      [] f = "scheme_name" -> VStr(v)
      [] f \in {"duration_start_date", "duration_end_date", "starting_at",
                "ending_at", "price_drop_date"} -> VOptional(v, VDate(v))
      [] f = "discount_type" -> VOptional(v, VEnum(v, DiscountType))
      [] f \in {"discount_value", "min_order_value", "max_discount_cap"} ->
            VOptional(v, VFloatGe(v, 0))
      [] f \in {"vendor_name", "category", "remarks"} -> VOptional(v, VStr(v))
      [] f = "confidence" -> VFloatRange(v, 0, ConfidenceMax)
      [] f = "needs_escalation" -> VBool(v)

\* SchemeHeader(**kwargs) at clock reading now: the record, or ValidationError
SchemeHeader(kwargs, now) ==
    IF \A f \in SchemeHeaderFields : ValidateField(f, kwargs[f]).ok
    THEN [exc |-> "none",
          rec |-> [f \in SchemeHeaderFields \cup {"source_file", "extracted_at"} |->
                     CASE f = "source_file" -> Null
                       [] f = "extracted_at" -> <<"time", now>>
                       [] OTHER -> ValidateField(f, kwargs[f]).val]]
    ELSE [exc |-> "ValidationError", rec |-> <<>>]

---------------------------------------------------------------------------
\* _map_to_scheme_header, both extractors.

\* a or b
PyOr(a, b) == IF Truthy(a) THEN a ELSE b

\* DSPySchemeExtractor._map_to_scheme_header: discount_type_map
DspyDiscountTypeMap ==
    [x \in {"Percentage of MRP", "Percentage of NLC", "Absolute", "PERCENTAGE",
            "FLAT", "SLAB", "Other"} |->
        CASE x \in {"Percentage of MRP", "Percentage of NLC", "PERCENTAGE"} -> "PERCENTAGE"
          [] x \in {"Absolute", "FLAT"} -> "FLAT"
          [] x = "SLAB" -> "SLAB"
          [] x = "Other" -> "OTHER"]

\* SchemeExtractor._map_to_scheme_header: discount_type_map
BasicDiscountTypeMap ==
    [x \in {"Percentage of MRP", "Percentage of NLC", "Absolute", "Other"} |->
        CASE x \in {"Percentage of MRP", "Percentage of NLC"} -> "PERCENTAGE"
          [] x = "Absolute" -> "FLAT"
          [] x = "Other" -> "OTHER"]

\* MapDiscountType with map.get(discount_type), the default "OTHER" forgotten
MapDiscountType_NoFallback(data, map) ==
    LET dt == DictGet(data, "discount_type", Null) IN
    IF ~Truthy(dt) THEN [exc |-> "none", val |-> dt]
    ELSE IF TypeOf(dt) \in {"arr", "obj"} THEN [exc |-> "TypeError", val |-> Null]
    ELSE IF TypeOf(dt) = "str" /\ dt[2] \in DOMAIN map
         THEN [exc |-> "none", val |-> Str(map[dt[2]])]
    ELSE [exc |-> "none", val |-> Null]

\* discount_type = data.get("discount_type"); if discount_type: map.get(discount_type, "OTHER")
\* (a list or a dict is unhashable: dict.get raises TypeError)
MapDiscountType(data, map) ==
    LET dt == DictGet(data, "discount_type", Null) IN
    IF ~Truthy(dt) THEN [exc |-> "none", val |-> dt]
    ELSE IF TypeOf(dt) \in {"arr", "obj"} THEN [exc |-> "TypeError", val |-> Null]
    ELSE IF TypeOf(dt) = "str" /\ dt[2] \in DOMAIN map
         THEN [exc |-> "none", val |-> Str(map[dt[2]])]
    ELSE [exc |-> "none", val |-> Str("OTHER")]

\* DSPySchemeExtractor._map_to_scheme_header(data), data a dict
DspyMapToSchemeHeader(data, now) ==
    LET dt == MapDiscountType(data, DspyDiscountTypeMap) IN
    IF dt.exc # "none" THEN [exc |-> dt.exc, rec |-> <<>>]
    ELSE SchemeHeader(
           [scheme_type |-> DictGet(data, "scheme_type", Str("OTHER")),
            scheme_sub_type |-> DictGet(data, "scheme_sub_type", Str("OTHER")),
            scheme_name |-> DictGet(data, "scheme_name", Str("")),
            duration_start_date |-> DictGet(data, "duration_start_date", Null),
            duration_end_date |-> DictGet(data, "duration_end_date", Null),
            starting_at |-> DictGet(data, "starting_at", Null),
            ending_at |-> DictGet(data, "ending_at", Null),
            price_drop_date |-> DictGet(data, "price_drop_date", Null),
            discount_type |-> dt.val,
            discount_value |-> PyOr(DictGet(data, "discount_value", Null),
                                    DictGet(data, "global_cap_amount", Null)),
            min_order_value |-> DictGet(data, "min_order_value", Null),
            max_discount_cap |-> PyOr(DictGet(data, "max_discount_cap", Null),
                                      DictGet(data, "global_cap_amount", Null)),
            vendor_name |-> DictGet(data, "vendor_name", Null),
            category |-> DictGet(data, "category", Null),
            remarks |-> PyOr(DictGet(data, "description", Null),
                             DictGet(data, "remarks", Null)),
            confidence |-> DictGet(data, "confidence", Num(FallbackConfidence)),
            needs_escalation |-> DictGet(data, "needs_escalation", Bool(FALSE))],
           now)

\* SchemeExtractor._map_to_scheme_header(data), data a dict
BasicMapToSchemeHeader(data, now) ==
    LET dt == MapDiscountType(data, BasicDiscountTypeMap) IN
    IF dt.exc # "none" THEN [exc |-> dt.exc, rec |-> <<>>]
    ELSE SchemeHeader(
           [scheme_type |-> DictGet(data, "scheme_type", Str("OTHER")),
            scheme_sub_type |-> DictGet(data, "scheme_sub_type", Str("OTHER")),
            scheme_name |-> DictGet(data, "scheme_name", Str("")),
            duration_start_date |-> DictGet(data, "duration_start_date", Null),
            duration_end_date |-> DictGet(data, "duration_end_date", Null),
            starting_at |-> DictGet(data, "starting_at", Null),
            ending_at |-> DictGet(data, "ending_at", Null),
            price_drop_date |-> DictGet(data, "price_drop_date", Null),
            discount_type |-> dt.val,
            discount_value |-> DictGet(data, "global_cap_amount", Null),
            min_order_value |-> Null,
            max_discount_cap |-> DictGet(data, "global_cap_amount", Null),
            vendor_name |-> Null,
            category |-> Null,
            remarks |-> DictGet(data, "description", Null),
            confidence |-> DictGet(data, "confidence", Num(FallbackConfidence)),
            needs_escalation |-> DictGet(data, "needs_escalation", Bool(FALSE))],
           now)

\* the mapper called on a decoded entry: data.get on anything but a dict raises AttributeError
MapEntry(kind, e, now) ==
    IF TypeOf(e) # "obj" THEN [exc |-> "AttributeError", rec |-> <<>>]
    ELSE IF kind = "dspy" THEN DspyMapToSchemeHeader(e[2], now)
    ELSE BasicMapToSchemeHeader(e[2], now)

---------------------------------------------------------------------------
\* _parse_schemes_json (DSPySchemeExtractor) and _parse_response (SchemeExtractor).

\* strip, drop a leading ```json, drop a leading ```, drop a trailing ```, strip
CleanCompletion(text) ==
    LET c1 == Strip(text)
        c2 == IF StartsWith(c1, FenceJson) THEN DropFirst(c1, 7) ELSE c1
        c3 == IF StartsWith(c2, Fence) THEN DropFirst(c2, 3) ELSE c2
        c4 == IF EndsWith(c3, Fence) THEN DropLast(c3, 3) ELSE c3
    IN  Strip(c4)

\* sub in s for two str: the strings of the model hold a key name only when they are it
IsSubstr(sub, s) == s = sub

\* key in v
PyIn(key, v) ==
    CASE TypeOf(v) = "obj" -> [exc |-> "none", val |-> key \in DOMAIN v[2]]
      [] TypeOf(v) = "arr" ->
            [exc |-> "none", val |-> \E i \in 1..Len(v[2]) : v[2][i] = Str(key)]
      [] TypeOf(v) = "str" -> [exc |-> "none", val |-> IsSubstr(key, v[2])]
      [] OTHER -> [exc |-> "TypeError", val |-> FALSE]

\* v[key], key a str: only a dict can be indexed by it
PyGetItem(v, key) ==
    IF TypeOf(v) = "obj" THEN [exc |-> "none", val |-> v[2][key]]
    ELSE [exc |-> "TypeError", val |-> Null]

RECURSIVE KeysOf(_)
KeysOf(keys) ==
    IF keys = {} THEN <<>>
    ELSE LET k == CHOOSE x \in keys : TRUE IN <<Str(k)>> \o KeysOf(keys \ {k})

\* the items of `for x in v`: a list's elements, a dict's keys, a str's characters
\* (a non-empty str is kept as one str item: every character is a str)
PyIter(v) ==
    CASE TypeOf(v) = "arr" -> [exc |-> "none", val |-> v[2]]
      [] TypeOf(v) = "obj" -> [exc |-> "none", val |-> KeysOf(DOMAIN v[2])]
      [] TypeOf(v) = "str" ->
            [exc |-> "none", val |-> IF v[2] = "" THEN <<>> ELSE <<v>>]
      [] OTHER -> [exc |-> "TypeError", val |-> <<>>]

\* ApplyDefaults with the attempt's values assigned whether or not the key is there
ApplyDefaults_Overwrite(e, dc, de) ==
    IF TypeOf(e) = "obj"
    THEN [exc |-> "none",
          val |-> Obj(DictSet(DictSet(e[2], "confidence", dc), "needs_escalation", de))]
    ELSE [exc |-> "TypeError", val |-> e]

\* ApplyDefaults with the second assignment (needs_escalation) left out
ApplyDefaults_ConfidenceOnly(e, dc, de) ==
    IF TypeOf(e) = "obj"
    THEN [exc |-> "none",
          val |-> Obj(IF "confidence" \in DOMAIN e[2] THEN e[2]
                      ELSE DictSet(e[2], "confidence", dc))]
    ELSE [exc |-> "TypeError", val |-> e]

\* if "confidence" not in scheme_data: scheme_data["confidence"] = default_confidence
\* if "needs_escalation" not in scheme_data: scheme_data["needs_escalation"] = default_escalation
ApplyDefaults(e, dc, de) ==
    IF TypeOf(e) = "obj" THEN
        LET d1 == IF "confidence" \in DOMAIN e[2] THEN e[2]
                  ELSE DictSet(e[2], "confidence", dc)
            d2 == IF "needs_escalation" \in DOMAIN d1 THEN d1
                  ELSE DictSet(d1, "needs_escalation", de)
        IN  [exc |-> "none", val |-> Obj(d2)]
    ELSE IF PyIn("confidence", e).exc # "none" THEN [exc |-> "TypeError", val |-> e]
    ELSE IF ~PyIn("confidence", e).val THEN [exc |-> "TypeError", val |-> e]
    ELSE IF ~PyIn("needs_escalation", e).val THEN [exc |-> "TypeError", val |-> e]
    ELSE [exc |-> "none", val |-> e]

\* the except clause of the loop body: except ValidationError: continue
EntryExcept(exc) == IF exc = "ValidationError" THEN "continue" ELSE "propagate"

\* for scheme_data in data["schemes"]: try: ... schemes.append(scheme)
RECURSIVE ParseEntries(_, _, _, _, _, _, _)
ParseEntries(kind, items, i, acc, dc, de, now) ==
    IF i > Len(items) THEN [exc |-> "none", schemes |-> acc]
    ELSE LET d == IF kind = "dspy" THEN ApplyDefaults(items[i], dc, de)
                  ELSE [exc |-> "none", val |-> items[i]]
             m == IF d.exc # "none" THEN [exc |-> d.exc, rec |-> <<>>]
                  ELSE MapEntry(kind, d.val, now)
         IN  IF m.exc = "none"
             THEN ParseEntries(kind, items, i + 1, Append(acc, m.rec), dc, de, now)
             ELSE IF EntryExcept(m.exc) = "continue"
             THEN ParseEntries(kind, items, i + 1, acc, dc, de, now)
             ELSE [exc |-> m.exc, schemes |-> <<>>]

\* the try block of the parser
ParseTry(kind, text, dc, de, now) ==
    LET data == JsonLoads(CleanCompletion(text)) IN
    IF data.exc # "none" THEN [exc |-> data.exc, schemes |-> <<>>]
    ELSE LET has == PyIn("schemes", data.val) IN
    IF has.exc # "none" THEN [exc |-> has.exc, schemes |-> <<>>]
    ELSE IF ~has.val THEN [exc |-> "none", schemes |-> <<>>]
    ELSE LET arr == PyGetItem(data.val, "schemes") IN
    IF arr.exc # "none" THEN [exc |-> arr.exc, schemes |-> <<>>]
    ELSE LET items == PyIter(arr.val) IN
    IF items.exc # "none" THEN [exc |-> items.exc, schemes |-> <<>>]
    ELSE ParseEntries(kind, items.val, 1, <<>>, dc, de, now)

\* ParseExcept with no except clause at all
ParseExcept_NoHandler(r) == r

\* ParseExcept with the clause for json.JSONDecodeError alone
ParseExcept_JsonOnly(r) ==
    IF r.exc \in {"none", "JSONDecodeError"} THEN [exc |-> "none", schemes |-> r.schemes]
    ELSE r

\* except json.JSONDecodeError: return []   except Exception: return []
ParseExcept(r) == IF r.exc = "none" THEN r ELSE [exc |-> "none", schemes |-> <<>>]

\* DSPySchemeExtractor._parse_schemes_json
ParseSchemesJson(text, dc, de, now) == ParseExcept(ParseTry("dspy", text, dc, de, now))

\* SchemeExtractor._parse_response
ParseResponse(text, now) == ParseExcept(ParseTry("basic", text, Null, Null, now))

---------------------------------------------------------------------------
\* The completions of the reasoning capability: JSON texts, junk, and wrappers.

\* most entries of a "schemes" array
MaxSchemes == 2

RECURSIVE Dumps(_)
RECURSIVE DumpItems(_, _)
RECURSIVE DumpMembers(_, _)

\* the JSON text of a value, as the model writes it
Dumps(v) ==
    CASE TypeOf(v) = "null" -> <<K("null")>>
      [] TypeOf(v) = "bool" -> <<K(IF v[2] THEN "true" ELSE "false")>>
      [] TypeOf(v) = "num" -> <<N(v[2])>>
      [] TypeOf(v) = "str" -> <<S(v[2])>>
      [] TypeOf(v) = "arr" -> <<P("[")>> \o DumpItems(v[2], 1) \o <<P("]")>>
      [] TypeOf(v) = "obj" ->
            <<P("{")>> \o DumpMembers(v[2], KeysOf(DOMAIN v[2])) \o <<P("}")>>

DumpItems(items, i) ==
    IF i > Len(items) THEN <<>>
    ELSE Dumps(items[i])
         \o (IF i < Len(items) THEN <<P(","), Space>> ELSE <<>>)
         \o DumpItems(items, i + 1)

DumpMembers(d, keys) ==
    IF keys = <<>> THEN <<>>
    ELSE <<S(Head(keys)[2]), P(":"), Space>> \o Dumps(d[Head(keys)[2]])
         \o (IF Len(keys) > 1 THEN <<P(","), Space>> ELSE <<>>)
         \o DumpMembers(d, Tail(keys))

\* per-scheme dictionaries a completion may carry
GoodEntry ==
    Obj([scheme_type |-> Str("BUY_SIDE"), scheme_sub_type |-> Str("PERIODIC_CLAIM"),
         scheme_name |-> Str("JBP Q1"), duration_start_date |-> Str("2024-01-01"),
         duration_end_date |-> Str("2024-03-31"), discount_type |-> Str("Absolute"),
         global_cap_amount |-> Num(500), confidence |-> Num(9),
         needs_escalation |-> Bool(FALSE)])
BareEntry == Obj([scheme_name |-> Str("Coupon")])
EscalatedEntry ==
    Obj([scheme_name |-> Str("PDC"), scheme_sub_type |-> Str("PDC"),
         confidence |-> Num(4), needs_escalation |-> Bool(TRUE)])
NegativeEntry == Obj([scheme_name |-> Str("Neg"), global_cap_amount |-> Num(-10)])
BadDateEntry == Obj([scheme_name |-> Str("Date"), duration_start_date |-> Str("March 2024")])
WrongTypeEntry == Obj([scheme_name |-> Num(70)])
LowerCaseEntry == Obj([scheme_name |-> Str("Case"), scheme_type |-> Str("buy_side")])
UnhashableEntry ==
    Obj([scheme_name |-> Str("Slab"), discount_type |-> Arr(<<Str("Absolute")>>)])

DictEntries ==
    {GoodEntry, BareEntry, EscalatedEntry, NegativeEntry, BadDateEntry,
     WrongTypeEntry, LowerCaseEntry, UnhashableEntry}
NonDictEntries == {Str("oops"), Num(30), Null}
Entries == DictEntries \cup NonDictEntries

RECURSIVE SeqsUpTo(_, _)
\* the sequences over elems of length at most n
SeqsUpTo(elems, n) ==
    IF n = 0 THEN {<<>>}
    ELSE LET shorter == SeqsUpTo(elems, n - 1) IN
         shorter \cup {Append(q, x) : q \in {r \in shorter : Len(r) = n - 1}, x \in elems}

\* decoded top-level values with a "schemes" list
SchemesValues == {Obj([schemes |-> Arr(q)]) : q \in SeqsUpTo(Entries, MaxSchemes)}

\* decoded top-level values whose "schemes" is not a list
OddSchemesValues ==
    {Obj([schemes |-> v]) : v \in {Null, Num(10), Str("none"), Str(""), Obj(<<>>), GoodEntry}}

\* decoded top-level values without a "schemes" key
KeylessValues ==
    {Obj(<<>>), Obj([result |-> Arr(<<>>)]), Obj([Schemes |-> Arr(<<GoodEntry>>)]),
     Arr(<<>>), Arr(<<GoodEntry>>), Arr(<<Str("schemes")>>), Num(0), Num(50), Null,
     Bool(TRUE), Bool(FALSE), Str("no schemes found"), Str("schemes"), Str("")}

\* texts that are not JSON
JunkTexts ==
    {<<>>,
     <<Ch("n"), Ch("o"), Ch("t"), Space, Ch("j"), Ch("s"), Ch("o"), Ch("n")>>,
     <<P("{"), S("schemes"), P(":"), P("[")>>,
     <<P("{"), S("schemes"), P(":"), P("["), P("]"), P(","), P("}")>>,
     <<P("["), N(10), P(","), P("]")>>,
     <<P("{"), S("schemes"), P("}")>>,
     <<P("{"), N(10), P(":"), N(10), P("}")>>,
     Dumps(Obj([schemes |-> Arr(<<GoodEntry>>)])) \o <<Ch("o"), Ch("k")>>,
     Dumps(Obj([schemes |-> Arr(<<>>)])) \o Dumps(Obj([schemes |-> Arr(<<>>)])),
     <<P("]")>>, <<P(":")>>, <<Backtick>>}

JsonBodies == {Dumps(v) : v \in SchemesValues \cup OddSchemesValues \cup KeylessValues}
Bodies == JsonBodies \cup JunkTexts

\* wrappers: the opening fence (none, bare, tagged json, tagged JSON), the closing
\* fence, and the whitespace put around every part
Wraps ==
    [open : {"none", "bare", "json", "JSON"}, close : BOOLEAN,
     ws : {<<>>, <<Space>>, <<Newline>>}]

NoWrap == [open |-> "none", close |-> FALSE, ws |-> <<>>]

OpenFence(w) ==
    CASE w.open = "none" -> <<>>
      [] w.open = "bare" -> Fence
      [] w.open = "json" -> FenceJson
      [] w.open = "JSON" -> FenceJSON

\* the completion that carries body inside wrapper w
Wrap(w, body) ==
    w.ws \o OpenFence(w) \o w.ws \o body \o w.ws
    \o (IF w.close THEN Fence ELSE <<>>) \o w.ws

\* (default_confidence, default_escalation) as stage 7 hands them over
Defaults == {<<Num(8), Bool(FALSE)>>, <<Num(3), Bool(TRUE)>>, <<Num(15), Bool(TRUE)>>}

\* a key the per-scheme dictionary does not carry
Absent == <<"absent", "">>

\* the dictionary of the chosen values, the absent keys left out
MakeDict(choice) == [k \in {x \in DOMAIN choice : choice[x] # Absent} |-> choice[k]]

\* per-scheme dictionaries, by the keys they vary: classification and name
ClassChoices ==
    [scheme_name : {Absent, Null, Str(""), Str("JBP Q1")},
     scheme_type : {Absent, Null, Str("BUY_SIDE"), Str("buy_side"), Str(" BUY_SIDE")},
     scheme_sub_type : {Absent, Str("PDC"), Str("COUPON"), Str("pdc")},
     price_drop_date : {Absent, Str("2024-01-01")}]

\* the two start dates and the two end dates
DateChoices ==
    [scheme_name : {Str("Dates")},
     duration_start_date : {Absent, Null, Str("2024-01-01"), Str("2024-03-31")},
     starting_at : {Absent, Null, Str("2024-01-01"), Str("2024-03-31")},
     duration_end_date : {Absent, Str("2024-01-01"), Str("2024-03-31")},
     ending_at : {Absent, Str("2024-01-01"), Str("2024-03-31")}]

\* the discount type and the free text
DiscountChoices ==
    [scheme_name : {Str("Discount")},
     discount_type : {Absent, Null, Str(""), Str("Percentage of MRP"),
                      Str("Percentage of NLC"), Str("Absolute"), Str("PERCENTAGE"),
                      Str("FLAT"), Str("SLAB"), Str("Other"), Str("OTHER"),
                      Str("Cashback"), Str("absolute")},
     description : {Absent, Str(""), Str("note")},
     remarks : {Absent, Null, Str("remark")}]

\* the amounts under their primary and alternate keys (in tenths)
MoneyChoices ==
    [scheme_name : {Str("Money")},
     discount_value : {Absent, Null, Num(0), Num(250), Num(-10)},
     global_cap_amount : {Absent, Num(0), Num(5000)},
     max_discount_cap : {Absent, Num(0), Num(1000)},
     min_order_value : {Absent, Num(-10), Num(100)}]

\* the quality fields
QualityChoices ==
    [scheme_name : {Str("Quality")},
     confidence : {Absent, Null, Num(0), Num(9), Num(15), Num(-2), Bool(TRUE)},
     needs_escalation : {Absent, Null, Bool(TRUE), Bool(FALSE), Num(10), Str("true")}]

RawDicts ==
    {Obj(MakeDict(c)) :
        c \in ClassChoices \cup DateChoices \cup DiscountChoices \cup MoneyChoices
              \cup QualityChoices}

\* (default_confidence, default_escalation), out-of-range scores included
MapDefaults == Defaults \cup {<<Num(-2), Bool(FALSE)>>}

---------------------------------------------------------------------------
\* OpenRouterLLM: the port, its history and get_usage_stats.

\* most extract calls on one client
MaxAttempts == 2
\* most port behaviours other than the nominal one, over the life of the client
MaxFaults == 2

\* the "usage" member of a provider response: token counts, absent, or null
NominalUsage ==
    Obj([prompt_tokens |-> Num(2), completion_tokens |-> Num(1), total_tokens |-> Num(3)])
UsageValues == {NominalUsage, Obj(<<>>), Null}

\* the behaviours of one request to the port:
\*   ok         a completion is returned and recorded in history
\*   malformed  a completion is returned and recorded, its fields cannot be read
\*   empty      the provider response has no choices: [""] is returned, nothing recorded
\*   timeout    requests.exceptions.Timeout is raised
\*   transport  another requests.exceptions.RequestException is raised
\* tolerated: whether the stage module turns an unreadable completion into a
\* prediction with empty fields (TRUE) or raises (FALSE)
Replies ==
    [kind : {"ok"}, usage : UsageValues, tolerated : {TRUE}]
    \cup [kind : {"malformed"}, usage : {NominalUsage}, tolerated : BOOLEAN]
    \cup [kind : {"empty"}, usage : {Obj(<<>>)}, tolerated : BOOLEAN]
    \cup [kind : {"timeout", "transport"}, usage : {Obj(<<>>)}, tolerated : {FALSE}]

NominalReply == [kind |-> "ok", usage |-> NominalUsage, tolerated |-> TRUE]

FaultCost(r) == IF r = NominalReply THEN 0 ELSE 1

\* the reply makes OpenRouterLLM.__call__ raise
PortRaises(r) == r.kind \in {"timeout", "transport"}

\* the reply is appended to history
Recorded(r) == r.kind \in {"ok", "malformed"}

\* self.history.append({... "usage": result.get("usage", {})})
Record(hist, call, r) ==
    IF Recorded(r) THEN Append(hist, [call |-> call, usage |-> r.usage]) ELSE hist

\* usage.get(key, 0) of one history entry; AttributeError when usage is None
UsageGet(entry, key) ==
    IF TypeOf(entry.usage) # "obj" THEN [exc |-> "AttributeError", val |-> 0]
    ELSE [exc |-> "none", val |-> DictGet(entry.usage[2], key, Num(0))[2]]

RECURSIVE SumUsage(_, _, _)
SumUsage(hist, key, i) ==
    IF i > Len(hist) THEN 0 ELSE UsageGet(hist[i], key).val + SumUsage(hist, key, i + 1)

\* GetUsageStats over the calls of the latest attempt only
GetUsageStats_ThisAttempt(hist) ==
    LET own == SelectSeq(hist, LAMBDA e : e.call[1] = hist[Len(hist)].call[1]) IN
    IF \E i \in 1..Len(hist) : UsageGet(hist[i], "total_tokens").exc # "none"
    THEN [exc |-> "AttributeError", val |-> <<>>]
    ELSE [exc |-> "none",
          val |-> [prompt_tokens |-> SumUsage(own, "prompt_tokens", 1),
                   completion_tokens |-> SumUsage(own, "completion_tokens", 1),
                   total_tokens |-> SumUsage(own, "total_tokens", 1),
                   num_calls |-> Len(own)]]

\* OpenRouterLLM.get_usage_stats
GetUsageStats(hist) ==
    IF \E i \in 1..Len(hist) : UsageGet(hist[i], "total_tokens").exc # "none"
    THEN [exc |-> "AttributeError", val |-> <<>>]
    ELSE [exc |-> "none",
          val |-> [prompt_tokens |-> SumUsage(hist, "prompt_tokens", 1),
                   completion_tokens |-> SumUsage(hist, "completion_tokens", 1),
                   total_tokens |-> SumUsage(hist, "total_tokens", 1),
                   num_calls |-> Len(hist)]]

---------------------------------------------------------------------------
\* LLMResponse, SchemeExtractionCoT.forward and the two extract methods.

\* the "step" names forward gives its artifacts, in the order of its statements
StepNames ==
    <<"1_key_facts", "2_classification", "3_dates", "4_financials", "5_vendors",
      "6_full_extraction", "7_confidence">>
NumStages == Len(StepNames)

NoFailure == [stage |-> 0, kind |-> "none"]
NoForward == [status |-> "none"]
NoResponse == [status |-> "none"]

\* the completions stage 6 (or the single call of SchemeExtractor) may return
EmptySchemesText == Dumps(Obj([schemes |-> Arr(<<>>)]))
PipelineCompletions ==
    {Dumps(Obj([schemes |-> Arr(q)])) :
        q \in {<<GoodEntry>>, <<BareEntry>>, <<EscalatedEntry, BareEntry>>,
               <<GoodEntry, NegativeEntry>>, <<BareEntry, Str("oops")>>}}
    \cup {EmptySchemesText, Dumps(Obj(<<>>)),
          <<Ch("n"), Ch("o"), Ch("t"), Space, Ch("j"), Ch("s"), Ch("o"), Ch("n")>>,
          Wrap([open |-> "json", close |-> TRUE, ws |-> <<Newline>>],
               Dumps(Obj([schemes |-> Arr(<<GoodEntry>>)])))}

\* the artifact forward appends for stage k: the outputs and the rationale of the
\* prediction, both empty when the stage module tolerated an unreadable completion
Artifact(k, r) ==
    [step |-> StepNames[k],
     output |-> IF r.kind = "ok" THEN "filled" ELSE "empty",
     reasoning |-> IF r.kind = "ok" THEN <<"rationale", k>> ELSE <<"rationale", 0>>]

\* StageException with every unreadable completion tolerated by the stage
StageException_ParseTolerated(r) ==
    CASE r.kind = "timeout" -> "Timeout"
      [] r.kind = "transport" -> "RequestException"
      [] OTHER -> "none"

\* StageException with a timeout swallowed by the stage
StageException_TimeoutSwallowed(r) ==
    CASE r.kind = "transport" -> "RequestException"
      [] r.kind \in {"malformed", "empty"} /\ ~r.tolerated -> "ParseError"
      [] OTHER -> "none"

\* the exception a stage call raises on reply r, "none" when it returns a prediction
StageException(r) ==
    CASE r.kind = "timeout" -> "Timeout"
      [] r.kind = "transport" -> "RequestException"
      [] r.kind \in {"malformed", "empty"} /\ ~r.tolerated -> "ParseError"
      [] OTHER -> "none"

\* NextStage with the following stage skipped
NextStage_Skip(k) == k + 2

\* the statement that follows stage k of forward
NextStage(k) == k + 1

\* all_reasoning = "\n\n".join(step["reasoning"] for step in cot_steps)
AllReasoning(steps) == <<"joined", [i \in 1..Len(steps) |-> steps[i].reasoning]>>

\* forward's return statement after stage 7
ForwardReturn(steps, text, conf, esc) ==
    [status |-> "returned", schemes_json |-> text,
     reasoning |-> AllReasoning(SubSeq(steps, 1, NumStages - 1)),
     cot_steps |-> steps, confidence_score |-> conf, needs_escalation |-> esc]

\* ForwardExcept with the steps gathered so far dropped
ForwardExcept_DropsTrace(steps, exc) ==
    [status |-> "returned", schemes_json |-> EmptySchemesText,
     reasoning |-> <<"Extraction failed", exc>>,
     cot_steps |-> <<>>, confidence_score |-> Num(0), needs_escalation |-> Bool(TRUE)]

\* forward's except Exception clause
ForwardExcept(steps, exc) ==
    [status |-> "returned", schemes_json |-> EmptySchemesText,
     reasoning |-> <<"Extraction failed", exc>>,
     cot_steps |-> steps, confidence_score |-> Num(0), needs_escalation |-> Bool(TRUE)]

\* LLMResponse(...): tokens_used is Optional[int] with ge=0
LLMResponse(schemes, raw, tokens, reasoning, steps) ==
    IF tokens # Null /\ tokens[2] < 0 THEN [exc |-> "ValidationError", val |-> NoResponse]
    ELSE [exc |-> "none",
          val |-> [status |-> "response", schemes |-> schemes, raw_response |-> raw,
                   tokens_used |-> tokens, reasoning |-> reasoning, cot_steps |-> steps]]

\* LLMResponse.needs_escalation
NeedsEscalation(resp) ==
    \E i \in 1..Len(resp.schemes) : resp.schemes[i].needs_escalation = Bool(TRUE)

RECURSIVE SumConfidence(_, _)
SumConfidence(schemes, i) ==
    IF i > Len(schemes) THEN 0
    ELSE schemes[i].confidence[2] + SumConfidence(schemes, i + 1)

\* AverageConfidence with the fallback confidence for a response without records
AverageConfidence_EmptyIsFallback(resp) ==
    IF resp.schemes = <<>> THEN [num |-> FallbackConfidence, den |-> 1]
    ELSE [num |-> SumConfidence(resp.schemes, 1), den |-> Len(resp.schemes)]

\* LLMResponse.average_confidence, as the fraction num/den (in tenths)
AverageConfidence(resp) ==
    IF resp.schemes = <<>> THEN [num |-> 0, den |-> 1]
    ELSE [num |-> SumConfidence(resp.schemes, 1), den |-> Len(resp.schemes)]

\* DSPySchemeExtractor.extract, the try block after the pipeline returned f
DspyExtractTry(f, hist, now) ==
    LET schemes == ParseSchemesJson(f.schemes_json, f.confidence_score,
                                    f.needs_escalation, now)
        usage == GetUsageStats(hist)
    IN  IF schemes.exc # "none" THEN [exc |-> schemes.exc, val |-> NoResponse]
        ELSE IF usage.exc # "none" THEN [exc |-> usage.exc, val |-> NoResponse]
        ELSE LLMResponse(schemes.schemes, f.schemes_json, Num(usage.val.total_tokens),
                         f.reasoning, f.cot_steps)

\* DspyExtractExcept with no except clause: the exception leaves extract
DspyExtractExcept_NoHandler(r) ==
    IF r.exc = "none" THEN [outcome |-> "returned", response |-> r.val]
    ELSE [outcome |-> "raised", response |-> NoResponse]

\* DSPySchemeExtractor.extract, the except Exception clause
DspyExtractExcept(r) ==
    IF r.exc = "none" THEN [outcome |-> "returned", response |-> r.val]
    ELSE [outcome |-> "returned",
          response |-> LLMResponse(<<>>, <<"str(e)", r.exc>>, Null,
                                   <<"Extraction failed", r.exc>>, <<>>).val]

\* DSPySchemeExtractor.extract from the return of forward on
DspyExtract(f, hist, now) == DspyExtractExcept(DspyExtractTry(f, hist, now))

\* SchemeExtractor.extract, the try block from the reply of the port on
BasicExtractTry(r, text, hist, now) ==
    IF PortRaises(r) THEN [exc |-> StageException(r), val |-> NoResponse]
    ELSE LET raw == IF r.kind = "empty" THEN <<>> ELSE text
             schemes == ParseResponse(raw, now)
             usage == GetUsageStats(hist)
         IN  IF schemes.exc # "none" THEN [exc |-> schemes.exc, val |-> NoResponse]
             ELSE IF usage.exc # "none" THEN [exc |-> usage.exc, val |-> NoResponse]
             ELSE LLMResponse(schemes.schemes, raw, Num(usage.val.total_tokens),
                              Null, <<>>)

\* SchemeExtractor.extract, the except Exception clause
BasicExtractExcept(r) ==
    IF r.exc = "none" THEN [outcome |-> "returned", response |-> r.val]
    ELSE [outcome |-> "returned",
          response |-> LLMResponse(<<>>, <<"str(e)", r.exc>>, Null, Null, <<>>).val]

\* SchemeExtractor.extract from the reply of the port on
BasicExtract(r, text, hist, now) == BasicExtractExcept(BasicExtractTry(r, text, hist, now))

---------------------------------------------------------------------------
\* The texts of an attempt.  A text whose characters do not matter is a sequence
\* of pieces [src, lo, hi]: the characters lo..hi-1 (offsets from 0) of source src.

Piece(src, lo, hi) == [src |-> src, lo |-> lo, hi |-> hi]
Text(src, n) == IF n = 0 THEN <<>> ELSE <<Piece(src, 0, n)>>

\* len(t)
RECURSIVE TextLen(_)
TextLen(t) == IF t = <<>> THEN 0 ELSE (Head(t).hi - Head(t).lo) + TextLen(Tail(t))

\* PySlice with the stop ignored: t[a:]
RECURSIVE PySlice_NoStop(_, _, _)
PySlice_NoStop(t, a, b) ==
    IF t = <<>> THEN <<>>
    ELSE LET h == Head(t)
             n == h.hi - h.lo
         IN  IF a >= n THEN PySlice_NoStop(Tail(t), a - n, b - n)
             ELSE <<Piece(h.src, h.lo + a, h.hi)>> \o PySlice_NoStop(Tail(t), 0, b - n)

\* t[a:b] for 0 <= a <= b
RECURSIVE PySlice(_, _, _)
PySlice(t, a, b) ==
    IF t = <<>> \/ b <= 0 THEN <<>>
    ELSE LET h == Head(t)
             n == h.hi - h.lo
         IN  IF a >= n THEN PySlice(Tail(t), a - n, b - n)
             ELSE <<Piece(h.src, h.lo + a, h.lo + (IF b < n THEN b ELSE n))>>
                  \o PySlice(Tail(t), 0, b - n)

\* the slice bounds of forward and of SchemeExtractor.extract
KeyFactsWindow == 8000
ClassifyWindow == 5000
TextWindow == 6000
TableWindow == 12000
FullWindow == 10000
BasicWindow == 12000

\* the length of every output field of a stage whose completion was readable
OutputLen == 400

\* f"\n\nTABLE {i}:\n" for i < 10, and the "\n" of "\n".join
TableLabelLen == 11
TableSrc == <<"csv1", "csv2">>
LabelSrc == <<"label1", "label2">>
JoinSrc == <<"join1", "join2">>

\* ExtractionResult.combined_body: full_text, then label and csv_content of each
\* table in order, the parts joined by "\n"; tables[i] is the length of table i's csv
RECURSIVE TableParts(_, _)
TableParts(tables, i) ==
    IF i > Len(tables) THEN <<>>
    ELSE <<Piece(JoinSrc[i], 0, 1), Piece(LabelSrc[i], 0, TableLabelLen)>>
         \o Text(TableSrc[i], tables[i]) \o TableParts(tables, i + 1)
CombinedBody(full_text, tables) == Text("full_text", full_text) \o TableParts(tables, 1)

\* an output field of stage k, read off the prediction (empty when the completion
\* of that stage was unreadable)
StageOutput(steps, k) ==
    IF steps[k].output = "filled"
    THEN Text(<<"out1", "out2", "out3", "out4", "out5", "out6">>[k], OutputLen)
    ELSE <<>>

\* context_summary, the f-string of stage 6
ContextSummary(subject, steps) ==
    Text("lit", 10) \o subject \o Text("lit", 18)
    \o StageOutput(steps, 2) \o Text("lit", 3) \o StageOutput(steps, 2)
    \o Text("lit", 8) \o StageOutput(steps, 3) \o Text("lit", 4) \o StageOutput(steps, 3)
    \o Text("lit", 11) \o StageOutput(steps, 4) \o Text("lit", 3) \o StageOutput(steps, 4)
    \o Text("lit", 10) \o StageOutput(steps, 5) \o Text("lit", 1)

\* the keyword arguments stage k of forward hands its module, each a text;
\* stage 0 is the dictionary SchemeExtractor.extract hands json.dumps
StageInputs(k, subject, body, steps) ==
    CASE k = 0 -> <<<<"mail_subject", subject>>,
                    <<"mail_body", PySlice(body, 0, BasicWindow)>>>>
      [] k = 1 -> <<<<"mail_subject", subject>>,
                    <<"mail_body", PySlice(body, 0, KeyFactsWindow)>>>>
      [] k = 2 -> <<<<"scheme_description", StageOutput(steps, 1)>>,
                    <<"keywords", StageOutput(steps, 1)>>,
                    <<"content_context", PySlice(body, 0, ClassifyWindow)>>>>
      [] k = 3 -> <<<<"text_content", PySlice(body, 0, TextWindow)>>,
                    <<"context", Text("lit", 10) \o StageOutput(steps, 1)
                                 \o Text("lit", 19) \o StageOutput(steps, 1)>>>>
      [] k = 4 -> <<<<"text_content", PySlice(body, 0, TextWindow)>>,
                    <<"table_data", PySlice(body, TextWindow, TableWindow)>>>>
      [] k = 5 -> <<<<"table_data", PySlice(body, TextWindow, TableWindow)>>,
                    <<"text_content", StageOutput(steps, 1)>>>>
      [] k = 6 -> <<<<"mail_subject", subject>>,
                    <<"mail_body", ContextSummary(subject, steps) \o Text("lit", 4)
                                   \o PySlice(body, 0, FullWindow)>>>>
      [] k = 7 -> <<<<"extracted_data", StageOutput(steps, 6)>>,
                    <<"extraction_reasoning",
                      StageOutput(steps, 1) \o Text("lit", 4) \o StageOutput(steps, 2)
                      \o Text("lit", 4) \o StageOutput(steps, 3) \o Text("lit", 4)
                      \o StageOutput(steps, 4) \o Text("lit", 4) \o StageOutput(steps, 5)
                      \o Text("lit", 4) \o StageOutput(steps, 6)>>>>

---------------------------------------------------------------------------
\* The attempts on one client.

NotParsed == [exc |-> "none", schemes |-> <<>>]

ParserIdle ==
    /\ p_kind = "none"
    /\ p_body = <<>>
    /\ p_wrap = NoWrap
    /\ p_defaults = <<Null, Null>>
    /\ p_pc = "off"
    /\ p_out = NotParsed
    /\ p_direct = NotParsed

ClientNew ==
    /\ extractor = "none"
    /\ pc = "idle"
    /\ stage = 0
    /\ cot_steps = <<>>
    /\ schemes_json = <<>>
    /\ outstanding = {}
    /\ requests = <<>>
    /\ failure = NoFailure
    /\ fwd = NoForward
    /\ response = NoResponse
    /\ outcome = "none"
    /\ history = <<>>
    /\ attempts = 0
    /\ faults = 0
    /\ clock = 0

\* the subject and the body of the attempts of Spec
NominalSubject == Text("subject", 60)
NominalBody == CombinedBody(9000, <<2000>>)

\* nothing is being mapped, fingerprinted or run on another thread
Quiet ==
    /\ scheme_data = Null
    /\ mapped = <<>>
    /\ result = <<>>
    /\ rows = <<>>
    /\ threads = <<>>
    /\ reports = <<>>

Init ==
    /\ ClientNew /\ ParserIdle /\ Quiet
    /\ mail_subject = NominalSubject
    /\ mail_body = NominalBody

\* a port request of stage k goes out
Issue(log, k) ==
    Append(log, [stage |-> k, state |-> "pending", kind |-> "none", tolerated |-> FALSE,
                 context |-> StageInputs(k, mail_subject, mail_body, cot_steps)])
\* the port answers the request that is out
Answer(log, r) ==
    [log EXCEPT ![Len(log)] =
        [stage |-> @.stage, state |-> "answered", kind |-> r.kind, tolerated |-> r.tolerated,
         context |-> @.context]]

\* extract(email_subject, email_body) is called: DSPySchemeExtractor.extract enters
\* forward; SchemeExtractor.extract builds its messages and calls the port
StartExtract(ext) ==
    /\ pc \in {"idle", "done"}
    /\ attempts < MaxAttempts
    /\ extractor' = ext
    /\ attempts' = attempts + 1
    /\ cot_steps' = <<>>
    /\ schemes_json' = <<>>
    /\ failure' = NoFailure
    /\ fwd' = NoForward
    /\ response' = NoResponse
    /\ outcome' = "none"
    /\ IF ext = "dspy"
       THEN /\ pc' = "ready"
            /\ stage' = 1
            /\ outstanding' = {}
            /\ requests' = <<>>
       ELSE /\ pc' = "waiting"
            /\ stage' = 0
            /\ outstanding' = {0}
            /\ requests' = Issue(<<>>, 0)
    /\ UNCHANGED <<history, faults, clock, parserVars, auxVars>>

\* forward reaches the call of the module of the current stage: the request goes out
StageCall ==
    /\ extractor = "dspy"
    /\ pc = "ready"
    /\ pc' = "waiting"
    /\ outstanding' = outstanding \cup {stage}
    /\ requests' = Issue(requests, stage)
    /\ UNCHANGED <<extractor, stage, cot_steps, schemes_json, failure, fwd, response,
                   outcome, clientVars, parserVars, auxVars>>

\* what stage k's prediction carries into the later statements of forward
StageTexts(k, r) ==
    IF k = 6 /\ r.kind = "ok" THEN PipelineCompletions ELSE {<<>>}
StageScores(k, r) ==
    IF k = 7 /\ r.kind = "ok" THEN Defaults ELSE {<<Null, Null>>}

\* the port answers the request of the current stage and forward runs on: to the
\* next stage's call, or through its return, the parsing and the LLMResponse
StageReply(r, text, score) ==
    /\ extractor = "dspy"
    /\ pc = "waiting"
    /\ faults + FaultCost(r) <= MaxFaults
    /\ faults' = faults + FaultCost(r)
    /\ outstanding' = outstanding \ {stage}
    /\ requests' = Answer(requests, r)
    /\ history' = Record(history, <<attempts, stage>>, r)
    /\ LET exc == StageException(r)
           steps == Append(cot_steps, Artifact(stage, r))
       IN  IF exc = "none" /\ stage < NumStages
           THEN /\ cot_steps' = steps
                /\ schemes_json' = IF stage = 6 THEN text ELSE schemes_json
                /\ stage' = NextStage(stage)
                /\ pc' = "ready"
                /\ UNCHANGED <<failure, fwd, response, outcome, clock>>
           ELSE LET f == IF exc = "none"
                         THEN ForwardReturn(steps, schemes_json, score[1], score[2])
                         ELSE ForwardExcept(cot_steps, exc)
                    res == DspyExtract(f, history', clock)
                IN  /\ cot_steps' = IF exc = "none" THEN steps ELSE cot_steps
                    /\ failure' = IF exc = "none" THEN NoFailure
                                  ELSE [stage |-> stage, kind |-> exc]
                    /\ fwd' = f
                    /\ response' = res.response
                    /\ outcome' = res.outcome
                    /\ pc' = "done"
                    /\ clock' = clock + 1
                    /\ UNCHANGED <<schemes_json, stage>>
    /\ UNCHANGED <<extractor, attempts, parserVars, auxVars>>

\* the port answers the single request of SchemeExtractor.extract, which runs to its return
BasicReply(r, text) ==
    /\ extractor = "basic"
    /\ pc = "waiting"
    /\ faults + FaultCost(r) <= MaxFaults
    /\ faults' = faults + FaultCost(r)
    /\ outstanding' = outstanding \ {stage}
    /\ requests' = Answer(requests, r)
    /\ history' = Record(history, <<attempts, stage>>, r)
    /\ LET res == BasicExtract(r, text, history', clock) IN
       /\ response' = res.response
       /\ outcome' = res.outcome
    /\ failure' = IF PortRaises(r) THEN [stage |-> 0, kind |-> StageException(r)]
                  ELSE NoFailure
    /\ pc' = "done"
    /\ clock' = clock + 1
    /\ UNCHANGED <<extractor, stage, cot_steps, schemes_json, fwd, attempts, parserVars,
                   auxVars>>

BasicReplies == {r \in Replies : r.kind # "malformed" /\ (r.kind = "empty" => r.tolerated)}

Next ==
    \/ \E ext \in {"dspy", "basic"} : StartExtract(ext)
    \/ StageCall
    \/ \E r \in Replies :
         \E text \in StageTexts(stage, r), score \in StageScores(stage, r) :
            StageReply(r, text, score)
    \/ \E r \in BasicReplies :
         \E text \in (IF r.kind = "ok" THEN PipelineCompletions ELSE {<<>>}) :
            BasicReply(r, text)

Spec == Init /\ [][Next]_vars

---------------------------------------------------------------------------
\* The parsers on their own: every wrapped completion of the input sets.

ParseInit ==
    /\ ClientNew /\ Quiet
    /\ mail_subject = <<>>
    /\ mail_body = <<>>
    /\ p_kind \in {"dspy", "basic"}
    /\ p_body \in Bodies
    /\ p_wrap \in Wraps
    /\ p_defaults \in (IF p_kind = "dspy" THEN Defaults ELSE {<<Null, Null>>})
    /\ p_pc = "input"
    /\ p_out = NotParsed
    /\ p_direct = NotParsed

\* the parser of p_kind on a completion
Parse(kind, text, defaults, now) ==
    IF kind = "dspy" THEN ParseSchemesJson(text, defaults[1], defaults[2], now)
    ELSE ParseResponse(text, now)

\* the parser is called on the wrapped completion, and on the body alone
ApplyParser ==
    /\ p_pc = "input"
    /\ p_pc' = "parsed"
    /\ p_out' = Parse(p_kind, Wrap(p_wrap, p_body), p_defaults, clock)
    /\ p_direct' = Parse(p_kind, p_body, p_defaults, clock)
    /\ UNCHANGED <<p_kind, p_body, p_wrap, p_defaults, attemptVars, clientVars, auxVars>>

ParseNext == ApplyParser

ParseSpec == ParseInit /\ [][ParseNext]_vars

---------------------------------------------------------------------------
\* The mappers behind the parsers: every per-scheme dictionary, alone in its array.

MapInit ==
    /\ ClientNew /\ Quiet
    /\ mail_subject = <<>>
    /\ mail_body = <<>>
    /\ p_kind \in {"dspy", "basic"}
    /\ p_body \in {Dumps(Obj([schemes |-> Arr(<<d>>)])) : d \in RawDicts}
    /\ p_wrap = NoWrap
    /\ p_defaults \in (IF p_kind = "dspy" THEN MapDefaults ELSE {<<Null, Null>>})
    /\ p_pc = "input"
    /\ p_out = NotParsed
    /\ p_direct = NotParsed

MapSpec == MapInit /\ [][ParseNext]_vars

---------------------------------------------------------------------------
\* build_scheme_header (src/build_scheme_header.py): the rows of one result.

\* f"{v}": str(v) of a decoded JSON value
PyFormat(v) ==
    CASE v = Null -> "None"
      [] TypeOf(v) = "str" -> v[2]
      [] TypeOf(v) = "bool" -> IF v[2] THEN "True" ELSE "False"
      [] TypeOf(v) = "num" -> ToString(v[2] \div 10) \o "." \o ToString(v[2] % 10)
      [] OTHER -> "[...]"

\* RawId with the cap amount of the scheme joined in
RawId_WithCap(scheme) ==
    PyFormat(DictGet(scheme, "scheme_name", Null)) \o "|"
    \o PyFormat(DictGet(scheme, "duration_start_date", Null)) \o "|"
    \o PyFormat(DictGet(scheme, "global_cap_amount", Null))

\* raw_id = f"{scheme.get('scheme_name')}|{scheme.get('duration_start_date')}|
\*            {scheme.get('duration_end_date')}"
RawId(scheme) ==
    PyFormat(DictGet(scheme, "scheme_name", Null)) \o "|"
    \o PyFormat(DictGet(scheme, "duration_start_date", Null)) \o "|"
    \o PyFormat(DictGet(scheme, "duration_end_date", Null))

\* hashlib.md5(s.encode()).hexdigest()[:10]: the digest is a function of the
\* string alone; it is kept as the string it digests (no two strings collide here)
Md5Prefix(s) == <<"md5[:10]", s>>

\* the row appended for one scheme
SchemeRow(scheme, source_file) ==
    [scheme_id |-> Md5Prefix(RawId(scheme)),
     scheme_name |-> DictGet(scheme, "scheme_name", Null),
     duration_start_date |-> DictGet(scheme, "duration_start_date", Null),
     duration_end_date |-> DictGet(scheme, "duration_end_date", Null),
     global_cap_amount |-> DictGet(scheme, "global_cap_amount", Null),
     scheme_document |-> source_file]

\* build_scheme_header(result, source_file): scheme.get raises on an entry that
\* is not a dict, and the loop has no handler
BuildSchemeHeader(schemes, source_file) ==
    IF \E i \in 1..Len(schemes) : TypeOf(schemes[i]) # "obj"
    THEN [exc |-> "AttributeError", rows |-> <<>>]
    ELSE [exc |-> "none",
          rows |-> [i \in 1..Len(schemes) |-> SchemeRow(schemes[i][2], source_file)]]

\* the per-scheme dictionaries fingerprinted: the triple, and fields outside it
IdSchemes ==
    {Obj(MakeDict(c)) : c \in
        [scheme_name : {Absent, Null, Str("JBP Q1"), Str("None")},
         duration_start_date : {Absent, Null, Str("2024-01-01")},
         duration_end_date : {Absent, Str("2024-03-31")},
         global_cap_amount : {Absent, Num(500)},
         confidence : {Absent},
         vendors : {Absent}]
        \cup [scheme_name : {Absent, Null, Str("JBP Q1"), Str("None")},
              duration_start_date : {Absent, Null, Str("2024-01-01")},
              duration_end_date : {Absent, Str("2024-03-31")},
              global_cap_amount : {Absent, Num(500)},
              confidence : {Num(9)},
              vendors : {Arr(<<>>)}]}

SourceFiles == {"a.pdf", "b.pdf"}

IdInit ==
    /\ ClientNew /\ ParserIdle
    /\ mail_subject = <<>>
    /\ mail_body = <<>>
    /\ scheme_data = Null
    /\ mapped = <<>>
    /\ result \in {<<a, b>> : a \in IdSchemes, b \in IdSchemes \cup {Str("oops")}}
    /\ rows = <<>>
    /\ threads = <<>>
    /\ reports = <<>>

\* one run of build_scheme_header over the result
BuildRows(source_file) ==
    /\ Len(rows) < MaxAttempts
    /\ rows' = Append(rows, BuildSchemeHeader(result, source_file))
    /\ UNCHANGED <<attemptVars, clientVars, parserVars, inputVars, scheme_data, mapped,
                   result, threadVars>>

IdNext == \E f \in SourceFiles : BuildRows(f)

IdSpec == IdInit /\ [][IdNext]_vars

---------------------------------------------------------------------------
\* One attempt over a subject and a body of every length around the slice bounds.

SubjectLens == {0, 60, 5000}
FullTextLens == {0, 5000, 6000, 6001, 11000, 12000, 13000}
TableLens == {<<>>, <<300>>, <<300, 7000>>}

ContextInit ==
    /\ ClientNew /\ ParserIdle /\ Quiet
    /\ mail_subject \in {Text("subject", n) : n \in SubjectLens}
    /\ mail_body \in {CombinedBody(n, t) : n \in FullTextLens, t \in TableLens}

\* what the port answers in these attempts
ContextReplies ==
    {NominalReply,
     [kind |-> "empty", usage |-> Obj(<<>>), tolerated |-> TRUE],
     [kind |-> "timeout", usage |-> Obj(<<>>), tolerated |-> FALSE]}
ContextTexts(k, r) ==
    IF k \in {0, 6} /\ r.kind = "ok"
    THEN {EmptySchemesText, Dumps(Obj([schemes |-> Arr(<<GoodEntry>>)]))}
    ELSE {<<>>}

ContextNext ==
    \/ \E ext \in {"dspy", "basic"} : attempts = 0 /\ StartExtract(ext)
    \/ StageCall
    \/ \E r \in ContextReplies :
         \E text \in ContextTexts(stage, r), score \in StageScores(stage, r) :
            StageReply(r, text, score)
    \/ \E r \in ContextReplies : \E text \in ContextTexts(0, r) : BasicReply(r, text)

ContextSpec == ContextInit /\ [][ContextNext]_vars

---------------------------------------------------------------------------
\* One per-scheme dictionary mapped more than once, the clock running.

\* MapCall with the discount type normalised in the dictionary itself
MapCall_NormalisesInPlace(kind, e, now) ==
    [out |-> MapEntry(kind, e, now),
     data |-> IF TypeOf(e) = "obj" /\ "discount_type" \in DOMAIN e[2]
              THEN Obj(DictSet(e[2], "discount_type", Str("OTHER")))
              ELSE e]

\* _map_to_scheme_header(data): the record (or the exception) and the dictionary
\* after the call; the mapper reads data with data.get only
MapCall(kind, e, now) == [out |-> MapEntry(kind, e, now), data |-> e]

RemapInit ==
    /\ ClientNew
    /\ p_kind \in {"dspy", "basic"}
    /\ p_body = <<>>
    /\ p_wrap = NoWrap
    /\ p_defaults \in (IF p_kind = "dspy" THEN Defaults ELSE {<<Null, Null>>})
    /\ p_pc = "off"
    /\ p_out = NotParsed
    /\ p_direct = NotParsed
    /\ mail_subject = <<>>
    /\ mail_body = <<>>
    /\ scheme_data \in RawDicts
    /\ mapped = <<>>
    /\ result = <<>>
    /\ rows = <<>>
    /\ threads = <<>>
    /\ reports = <<>>

\* the loop of _parse_schemes_json writes the defaults into the dictionary
SetDefaults ==
    /\ p_kind = "dspy"
    /\ scheme_data' = ApplyDefaults(scheme_data, p_defaults[1], p_defaults[2]).val
    /\ scheme_data' # scheme_data
    /\ UNCHANGED <<attemptVars, clientVars, parserVars, inputVars, mapped, result, rows,
                   threadVars>>

\* the mapper is called on the dictionary; SchemeHeader reads the clock
MapAgain ==
    /\ Len(mapped) < MaxAttempts
    /\ LET call == MapCall(p_kind, scheme_data, clock) IN
       /\ mapped' = Append(mapped, [from |-> scheme_data, out |-> call.out,
                                    after |-> call.data])
       /\ scheme_data' = call.data
    /\ clock' = clock + 1
    /\ UNCHANGED <<attemptVars, history, attempts, faults, parserVars, inputVars, result,
                   rows, threadVars>>

RemapNext == SetDefaults \/ MapAgain

RemapSpec == RemapInit /\ [][RemapNext]_vars

---------------------------------------------------------------------------
\* Attempts on several threads sharing one client.  A step is what one thread
\* does between two points where the interpreter may switch threads:
\* list.append and the fetch of the next item of the for loop are atomic.

ThreadIds == {1, 2}
ThreadCalls == 2

ThreadNew == [pc |-> "idle", calls |-> 0, recorded |-> 0, i |-> 0,
              prompt_tokens |-> 0, completion_tokens |-> 0, total_tokens |-> 0]

ConcInit ==
    /\ ClientNew /\ ParserIdle
    /\ mail_subject = <<>>
    /\ mail_body = <<>>
    /\ scheme_data = Null
    /\ mapped = <<>>
    /\ result = <<>>
    /\ rows = <<>>
    /\ threads = [t \in ThreadIds |-> ThreadNew]
    /\ reports = <<>>

\* what the provider answers a thread
ThreadReplies ==
    {NominalReply,
     [kind |-> "ok", usage |-> Obj(<<>>), tolerated |-> TRUE],
     [kind |-> "ok", usage |-> Null, tolerated |-> TRUE],
     [kind |-> "empty", usage |-> Obj(<<>>), tolerated |-> TRUE],
     [kind |-> "timeout", usage |-> Obj(<<>>), tolerated |-> FALSE]}

\* thread t enters OpenRouterLLM.__call__: requests.post is out
ThreadCall(t) ==
    /\ threads[t].pc = "idle"
    /\ threads[t].calls < ThreadCalls
    /\ threads' = [threads EXCEPT ![t].pc = "calling", ![t].calls = @ + 1]
    /\ UNCHANGED <<attemptVars, clientVars, parserVars, inputVars, toolVars, reports>>

\* the provider answers thread t: __call__ appends to history and returns, returns
\* [""] without appending, or raises; after an exception the attempt makes no
\* further call
ThreadReply(t, r) ==
    /\ threads[t].pc = "calling"
    /\ history' = Record(history, <<t, threads[t].calls>>, r)
    /\ threads' = [threads EXCEPT
                     ![t].pc = IF PortRaises(r) THEN "failed" ELSE "idle",
                     ![t].recorded = IF Recorded(r) THEN @ + 1 ELSE @]
    /\ UNCHANGED <<attemptVars, attempts, faults, clock, parserVars, inputVars, toolVars,
                   reports>>

\* thread t enters get_usage_stats: the three totals are set to 0
StatsBegin(t) ==
    /\ threads[t].pc \in {"idle", "failed"}
    /\ threads[t].calls > 0
    /\ threads' = [threads EXCEPT ![t].pc = "summing", ![t].i = 0,
                                  ![t].prompt_tokens = 0, ![t].completion_tokens = 0,
                                  ![t].total_tokens = 0]
    /\ UNCHANGED <<attemptVars, clientVars, parserVars, inputVars, toolVars, reports>>

\* one turn of `for entry in self.history`: the loop ends when the index has
\* reached the length the list has now; usage.get raises on a usage that is null
StatsIter(t) ==
    /\ threads[t].pc = "summing"
    /\ LET th == threads[t] IN
       IF th.i >= Len(history)
       THEN threads' = [threads EXCEPT ![t].pc = "returning"]
       ELSE LET entry == history[th.i + 1] IN
            IF UsageGet(entry, "prompt_tokens").exc # "none"
            THEN threads' = [threads EXCEPT ![t].pc = "raised"]
            ELSE threads' = [threads EXCEPT
                    ![t].i = @ + 1,
                    ![t].prompt_tokens = @ + UsageGet(entry, "prompt_tokens").val,
                    ![t].completion_tokens = @ + UsageGet(entry, "completion_tokens").val,
                    ![t].total_tokens = @ + UsageGet(entry, "total_tokens").val]
    /\ UNCHANGED <<attemptVars, clientVars, parserVars, inputVars, toolVars, reports>>

\* the return statement: the totals of the loop, and len(self.history) read now
StatsReturn(t) ==
    /\ threads[t].pc = "returning"
    /\ reports' = Append(reports, [prompt_tokens |-> threads[t].prompt_tokens,
                                   completion_tokens |-> threads[t].completion_tokens,
                                   total_tokens |-> threads[t].total_tokens,
                                   num_calls |-> Len(history)])
    /\ threads' = [threads EXCEPT ![t].pc = "finished"]
    /\ UNCHANGED <<attemptVars, clientVars, parserVars, inputVars, toolVars>>

ConcNext ==
    \E t \in ThreadIds :
        \/ ThreadCall(t)
        \/ \E r \in ThreadReplies : ThreadReply(t, r)
        \/ StatsBegin(t)
        \/ StatsIter(t)
        \/ StatsReturn(t)

ConcSpec == ConcInit /\ [][ConcNext]_vars

---------------------------------------------------------------------------
\* Properties of the attempts (checked under Spec).

\* the stage call behind request q raised
Raised(q) ==
    \/ q.kind \in {"timeout", "transport"}
    \/ q.kind \in {"malformed", "empty"} /\ ~q.tolerated

TransportFailed(q) == q.kind \in {"timeout", "transport"}

\* C1: whatever the port does at any stage (timeout, transport error, empty or
\* malformed completion, unreadable usage), extract ends by returning an LLMResponse:
\* an attempt issues at most one request per stage, and when it is over no exception
\* has left extract and the value returned is a well-formed LLMResponse.
C1_ExtractAlwaysReturns ==
    /\ Len(requests) <= NumStages
    /\ pc = "done" =>
          /\ outcome = "returned"
          /\ response.status = "response"
          /\ TypeOf(response.tokens_used) = "num" => response.tokens_used[2] >= 0
          /\ Len(response.schemes) <= MaxSchemes

\* C1 witness: a timeout at a stage of an attempt whose history holds a null usage,
\* so that both forward's handler and extract's handler have run, and extract returned
C1_Witness ==
    /\ pc = "done"
    /\ extractor = "dspy"
    /\ failure.kind = "Timeout"
    /\ \E i \in 1..Len(history) : history[i].usage = Null
    /\ outcome = "returned"
    /\ response.status = "response"

\* C2: after an exception in a stage, the response extract hands to its caller has
\* zero schemes, confidence 0.0 and needs_escalation true.
C2_FailureEscalates ==
    pc = "done" /\ extractor = "dspy" /\ failure # NoFailure =>
        /\ response.schemes = <<>>
        /\ AverageConfidence(response) = [num |-> 0, den |-> 1]
        /\ NeedsEscalation(response)

C4_StagesInOrder ==
    extractor = "dspy" =>
        /\ Cardinality(outstanding) <= 1
        /\ \A i \in 1..Len(requests) :
              /\ requests[i].stage = i
              /\ i < Len(requests) => requests[i].state = "answered"
        /\ \A i \in 1..Len(cot_steps) : cot_steps[i].step = StepNames[i]
        /\ pc = "waiting" =>
              /\ outstanding = {Len(requests)}
              /\ requests[Len(requests)].state = "pending"
              /\ Len(cot_steps) = Len(requests) - 1
        /\ pc = "ready" =>
              /\ outstanding = {}
              /\ Len(cot_steps) = Len(requests)
              /\ stage = Len(requests) + 1

\* C4 witness: the request of stage 7 is out, after six artifacts
C4_Witness ==
    /\ extractor = "dspy"
    /\ pc = "waiting"
    /\ stage = NumStages
    /\ outstanding = {NumStages}
    /\ Len(cot_steps) = NumStages - 1

\* C5: every artifact of a completed stage, with its rationale, is in the trace
\* extract returns, whatever failed after that stage.
C5_TraceRetained ==
    pc = "done" /\ extractor = "dspy" =>
        \A i \in 1..Len(cot_steps) :
            /\ i <= Len(response.cot_steps)
            /\ response.cot_steps[i] = cot_steps[i]

\* C6: a request the port failed by timeout or transport error is the last request
\* of its attempt, which is over; no stage has two requests in one attempt.
C6_TransportFailureIsFatal ==
    \A i \in 1..Len(requests) :
        /\ TransportFailed(requests[i]) =>
              /\ i = Len(requests)
              /\ pc = "done"
              /\ outstanding = {}
              /\ failure.stage = requests[i].stage
        /\ \A j \in 1..Len(requests) : requests[i].stage = requests[j].stage => i = j

\* C6 witness: stage 3 timed out after two answered stages, and the attempt is over
C6_Witness ==
    /\ pc = "done"
    /\ extractor = "dspy"
    /\ Len(requests) = 3
    /\ requests[3].kind = "timeout"
    /\ failure = [stage |-> 3, kind |-> "Timeout"]

\* the sum of the confidences of the first n records
RECURSIVE TotalConfidence(_, _)
TotalConfidence(recs, n) ==
    IF n = 0 THEN 0 ELSE TotalConfidence(recs, n - 1) + recs[n].confidence[2]

\* C22: the aggregate confidence of a response is the unweighted arithmetic mean
\* of the confidences of its records (sum over count), and is exactly 0 when the
\* response has no records.
C22_AverageIsMean ==
    pc = "done" =>
        LET avg == AverageConfidence(response)
            n == Len(response.schemes)
        IN  /\ avg.den > 0
            /\ n = 0 => avg.num = 0
            /\ n > 0 => avg.num * n = TotalConfidence(response.schemes, n) * avg.den

C22_Witness ==
    /\ pc = "done" /\ Len(response.schemes) = 2
    /\ response.schemes[1].confidence # response.schemes[2].confidence
    /\ AverageConfidence(response).num
         = response.schemes[1].confidence[2] + response.schemes[2].confidence[2]
    /\ AverageConfidence(response).den = 2

---------------------------------------------------------------------------
\* Properties of the parsers (checked under ParseSpec).

Parsed == p_pc = "parsed"

\* what json.loads makes of the completion once cleaned
Decoded == JsonLoads(CleanCompletion(Wrap(p_wrap, p_body)))

EmptyResult == [exc |-> "none", schemes |-> <<>>]

\* C7: a completion that is not JSON once the delimiters are stripped gives an empty
\* scheme list, and the parser raises nothing.
C7_MalformedJsonYieldsEmpty ==
    Parsed /\ Decoded.exc # "none" => p_out = EmptyResult

\* C7 witness: the completion "not json" was parsed to the empty list
C7_Witness ==
    /\ Parsed
    /\ p_wrap = NoWrap
    /\ p_body = <<Ch("n"), Ch("o"), Ch("t"), Space, Ch("j"), Ch("s"), Ch("o"), Ch("n")>>
    /\ p_out = EmptyResult

\* C8: for valid JSON inside an opening fence (bare, or tagged json in any casing)
\* and a closing fence, with any whitespace around, the parser gives exactly the
\* record list it gives on the JSON alone (both taken at the same clock reading).
C8_AnyFenceStripped ==
    (Parsed /\ JsonLoads(p_body).exc = "none" /\ p_wrap.open # "none" /\ p_wrap.close)
    => p_out = p_direct

\* C9: a completion that decodes to JSON without a top-level "schemes" key (an
\* object without it, or an array, number, string, boolean or null) gives zero
\* schemes, and the parser raises nothing.
C9_NoSchemesKeyYieldsEmpty ==
    (/\ Parsed
     /\ Decoded.exc = "none"
     /\ (TypeOf(Decoded.val) = "obj" => "schemes" \notin DOMAIN Decoded.val[2]))
    => p_out = EmptyResult

\* C9 witness: the completion 5.0 (a number) was parsed to the empty list
C9_Witness ==
    /\ Parsed
    /\ p_body = Dumps(Num(50))
    /\ p_wrap.open = "none"
    /\ p_out = EmptyResult

\* the records the parser gives for the array that holds entry e alone
Alone(e) == Parse(p_kind, Dumps(Obj([schemes |-> Arr(<<e>>)])), p_defaults, clock).schemes

\* C10: in a "schemes" array, an entry that cannot be mapped removes only itself:
\* the record of every entry that is valid on its own is in the list the parser returns.
C10_SiblingsSurvive ==
    (/\ Parsed
     /\ JsonLoads(p_body).exc = "none"
     /\ TypeOf(JsonLoads(p_body).val) = "obj"
     /\ "schemes" \in DOMAIN JsonLoads(p_body).val[2]
     /\ TypeOf(JsonLoads(p_body).val[2]["schemes"]) = "arr")
    => LET entries == JsonLoads(p_body).val[2]["schemes"][2] IN
       \A i \in 1..Len(entries) :
           Alone(entries[i]) # <<>> =>
               \E j \in 1..Len(p_direct.schemes) :
                   p_direct.schemes[j] = Alone(entries[i])[1]

---------------------------------------------------------------------------
\* Properties of the mappers (checked under MapSpec).

\* the per-scheme dictionary of the completion
Raw == JsonLoads(p_body).val[2]["schemes"][2][1][2]

RawGet(k) == DictGet(Raw, k, Absent)

\* the parser emitted the record of the dictionary
Emitted == Parsed /\ Len(p_direct.schemes) = 1
Rec == p_direct.schemes[1]

\* the confidence the attempt hands over is one validation accepts
DefaultsValid ==
    p_kind = "dspy" => p_defaults[1][2] >= 0 /\ p_defaults[1][2] <= ConfidenceMax

\* C11 as claimed: a raw discount_type string of the three-entry table ("Percentage
\* of MRP", "Percentage of NLC", "Absolute") maps to its table value and every other
\* string (the empty string, "PERCENTAGE", "FLAT", "SLAB" included) maps to OTHER,
\* in both mappers.
C11_DiscountTypeTotal ==
    (Parsed /\ DefaultsValid /\ TypeOf(RawGet("discount_type")) = "str")
    => /\ Emitted
       /\ Rec.discount_type =
             Str(CASE Raw.discount_type[2] \in {"Percentage of MRP", "Percentage of NLC"}
                        -> "PERCENTAGE"
                   [] Raw.discount_type[2] = "Absolute" -> "FLAT"
                   [] OTHER -> "OTHER")

\* C11 amended: every non-empty raw discount_type string is mapped: "Percentage of
\* MRP" and "Percentage of NLC" to PERCENTAGE and "Absolute" to FLAT in both mappers,
\* "PERCENTAGE", "FLAT" and "SLAB" to themselves in the DSPy mapper, and every other
\* non-empty string to OTHER; the empty string is left as it is, validation rejects
\* it and no record is emitted.
C11_DiscountTypeByTable ==
    (Parsed /\ DefaultsValid /\ TypeOf(RawGet("discount_type")) = "str")
    => IF Raw.discount_type[2] = "" THEN ~Emitted
       ELSE /\ Emitted
            /\ Rec.discount_type =
                  Str(CASE Raw.discount_type[2] \in {"Percentage of MRP", "Percentage of NLC"}
                             -> "PERCENTAGE"
                        [] Raw.discount_type[2] = "Absolute" -> "FLAT"
                        [] p_kind = "dspy" /\ Raw.discount_type[2] \in {"PERCENTAGE", "FLAT", "SLAB"}
                             -> Raw.discount_type[2]
                        [] OTHER -> "OTHER")

\* C11 witness: the unlisted string "Cashback" came out as OTHER
C11_Witness ==
    /\ Emitted
    /\ RawGet("discount_type") = Str("Cashback")
    /\ Rec.discount_type = Str("OTHER")

\* the value under key a when it is there and not null, otherwise the value under b
FirstNonNull(a, b) ==
    IF RawGet(a) \notin {Absent, Null} THEN Raw[a] ELSE DictGet(Raw, b, Null)

\* C12: discount_value and max_discount_cap carry the value of their primary key
\* whenever it is non-null, 0 included, and the value of global_cap_amount only when
\* the primary key is null or absent.
C12_PrimaryKeyWins ==
    (Emitted /\ p_kind = "dspy") =>
        /\ Rec.discount_value = FirstNonNull("discount_value", "global_cap_amount")
        /\ Rec.max_discount_cap = FirstNonNull("max_discount_cap", "global_cap_amount")

\* the value the record's confidence comes from: the dictionary's own, else the
\* attempt's (stage 7), else 0.5 (in tenths)
ConfidenceSource ==
    IF RawGet("confidence") # Absent THEN Raw.confidence
    ELSE IF p_kind = "dspy" THEN p_defaults[1]
    ELSE Num(5)

\* the same for needs_escalation, the last resort being false
EscalationSource ==
    IF RawGet("needs_escalation") # Absent THEN Raw.needs_escalation
    ELSE IF p_kind = "dspy" THEN p_defaults[2]
    ELSE Bool(FALSE)

\* C13: a record's confidence and needs_escalation are the dictionary's own values
\* when it has them, otherwise the attempt-level (stage 7) values, otherwise 0.5 and
\* false; a value of the dictionary always overrides the attempt-level one.
C13_QualityDefaults ==
    Emitted =>
        /\ Rec.confidence = VFloat(ConfidenceSource).val
        /\ Rec.needs_escalation = VBool(EscalationSource).val

\* C13 witness: the dictionary's confidence 0.9 and needs_escalation false came out
\* although stage 7 handed over 0.3 and true
C13_Witness ==
    /\ Emitted
    /\ p_kind = "dspy"
    /\ p_defaults = <<Num(3), Bool(TRUE)>>
    /\ RawGet("confidence") = Num(9)
    /\ RawGet("needs_escalation") = Bool(FALSE)
    /\ Rec.confidence = Num(9)
    /\ Rec.needs_escalation = Bool(FALSE)

\* the dictionary's own needs_escalation signals uncertainty
OwnEscalation == RawGet("needs_escalation") \in {Bool(TRUE), Num(10), Str("true")}

\* C14 as claimed: when stage 7's needs_escalation is true every record of the attempt
\* has needs_escalation true, and so has a record whose own output signals uncertainty.
C14_EscalationReachesEveryRecord ==
    Emitted =>
        /\ p_kind = "dspy" /\ p_defaults[2] = Bool(TRUE) => Rec.needs_escalation = Bool(TRUE)
        /\ OwnEscalation => Rec.needs_escalation = Bool(TRUE)

\* C14 amended: when stage 7's needs_escalation is true every record of the attempt
\* whose dictionary has no needs_escalation of its own has needs_escalation true (a
\* dictionary's own value, false included, stands), and a record whose own output
\* signals uncertainty has needs_escalation true.
C14_EscalationReachesSilentRecords ==
    Emitted =>
        /\ (/\ p_kind = "dspy"
            /\ p_defaults[2] = Bool(TRUE)
            /\ RawGet("needs_escalation") = Absent) => Rec.needs_escalation = Bool(TRUE)
        /\ RawGet("needs_escalation") # Absent =>
              Rec.needs_escalation = Bool(OwnEscalation)

\* C14 witness: a dictionary without needs_escalation came out escalated by stage 7
C14_Witness ==
    /\ Emitted
    /\ p_kind = "dspy"
    /\ p_defaults[2] = Bool(TRUE)
    /\ RawGet("needs_escalation") = Absent
    /\ RawGet("confidence") = Num(9)
    /\ Rec.needs_escalation = Bool(TRUE)

\* the raw dictionary has a value (not null) under key k
Present(k) == RawGet(k) \notin {Absent, Null}

\* C15: a record has starting_at = duration_start_date and ending_at =
\* duration_end_date whenever the raw dictionary has both members of the pair, also
\* when it gave them different values.
C15_DateAliasing ==
    Emitted =>
        /\ Present("starting_at") /\ Present("duration_start_date") =>
              Rec.starting_at = Rec.duration_start_date
        /\ Present("ending_at") /\ Present("duration_end_date") =>
              Rec.ending_at = Rec.duration_end_date

\* C16: a record has a price_drop_date only if its scheme_sub_type is PDC.
C16_PriceDropOnlyForPDC ==
    Emitted => (Rec.price_drop_date # Null => Rec.scheme_sub_type = Str("PDC"))

\* C17: scheme_type and scheme_sub_type of every emitted record are members of their
\* enumerations, whatever casing or spacing the raw values had.
C17_EnumMembership ==
    Emitted =>
        /\ Rec.scheme_type[2] \in {"BUY_SIDE", "SELL_SIDE", "ONE_OFF", "OTHER"}
        /\ Rec.scheme_sub_type[2] \in
              {"PERIODIC_CLAIM", "PDC", "PUC_FDC", "COUPON", "SUPER_COIN", "PREXO",
               "BANK_OFFER", "LIFESTYLE", "ONE_OFF", "OTHER"}

\* C17 witness: a record came out with the raw members BUY_SIDE and PDC
C17_Witness ==
    /\ Emitted
    /\ RawGet("scheme_type") = Str("BUY_SIDE")
    /\ RawGet("scheme_sub_type") = Str("PDC")
    /\ Rec.scheme_type = Str("BUY_SIDE")
    /\ Rec.scheme_sub_type = Str("PDC")

\* an enum name in a casing or spacing that is not the exact one
NonExact(v) == v \in {Str("buy_side"), Str(" BUY_SIDE"), Str("pdc")}

\* nothing but the two classification values can make validation reject the dictionary
RestValid == DefaultsValid /\ RawGet("scheme_name") # Null /\ RawGet("scheme_type") # Null

\* C18 as claimed: a dictionary whose scheme_type or scheme_sub_type is an enum name in
\* non-exact casing still yields a record, with that field OTHER; an absent key
\* gives OTHER as well.
C18_CasingFallsToOther ==
    (Parsed /\ RestValid) =>
        /\ NonExact(RawGet("scheme_type")) => Emitted /\ Rec.scheme_type = Str("OTHER")
        /\ NonExact(RawGet("scheme_sub_type")) => Emitted /\ Rec.scheme_sub_type = Str("OTHER")
        /\ Emitted /\ RawGet("scheme_type") = Absent => Rec.scheme_type = Str("OTHER")
        /\ Emitted /\ RawGet("scheme_sub_type") = Absent => Rec.scheme_sub_type = Str("OTHER")

\* C18 amended: a dictionary whose scheme_type or scheme_sub_type is an enum name in
\* non-exact casing is rejected by validation and yields no record; in a record, the
\* field of an absent key is OTHER.
C18_CasingRejected ==
    Parsed =>
        /\ NonExact(RawGet("scheme_type")) \/ NonExact(RawGet("scheme_sub_type")) => ~Emitted
        /\ Emitted /\ RawGet("scheme_type") = Absent => Rec.scheme_type = Str("OTHER")
        /\ Emitted /\ RawGet("scheme_sub_type") = Absent => Rec.scheme_sub_type = Str("OTHER")

\* C18 witness: the dictionary with scheme_type "buy_side", valid otherwise, gave no record
C18_Witness ==
    /\ Parsed
    /\ RestValid
    /\ RawGet("scheme_type") = Str("buy_side")
    /\ RawGet("scheme_sub_type") = Str("PDC")
    /\ RawGet("scheme_name") = Str("JBP Q1")
    /\ p_direct.schemes = <<>>

\* C19 as claimed: scheme_name and remarks of every emitted record are non-null
\* strings, the empty string when the raw dictionary has no name or no
\* description/remarks (key absent or null), and such a dictionary yields a record.
C19_NameAndRemarksNeverNull ==
    /\ Emitted =>
          /\ TypeOf(Rec.scheme_name) = "str"
          /\ TypeOf(Rec.remarks) = "str"
          /\ ~Present("scheme_name") => Rec.scheme_name = Str("")
          /\ ~Present("description") /\ ~Present("remarks") => Rec.remarks = Str("")
    /\ (Parsed /\ DefaultsValid /\ RawGet("scheme_name") = Null /\ RawGet("scheme_type") = Absent
        /\ RawGet("scheme_sub_type") = Absent) => Emitted

\* the free text the mapper hands to the record
RemarksSource ==
    IF p_kind = "dspy"
    THEN IF Present("description") /\ RawGet("description") # Str("") THEN Raw.description
         ELSE IF RawGet("remarks") = Absent THEN Null ELSE Raw.remarks
    ELSE IF RawGet("description") = Absent THEN Null ELSE Raw.description

\* C19 amended: scheme_name of every emitted record is a non-null string, the empty
\* string when the key is absent, and a dictionary whose scheme_name is null yields no
\* record; remarks is a string or null: the description when it is given (and, in the
\* DSPy mapper, not empty), otherwise the raw remarks (DSPy mapper), and null when
\* neither is given.
C19_NameNeverNull ==
    /\ Emitted =>
          /\ TypeOf(Rec.scheme_name) = "str"
          /\ RawGet("scheme_name") = Absent => Rec.scheme_name = Str("")
          /\ TypeOf(Rec.remarks) \in {"str", "null"}
          /\ Rec.remarks = RemarksSource
          /\ ~Present("description") /\ ~Present("remarks") => Rec.remarks = Null
    /\ Parsed /\ RawGet("scheme_name") = Null => ~Emitted

\* C19 witness: a dictionary without name, description and remarks gave a record with
\* the empty name and null remarks
C19_Witness ==
    /\ Emitted
    /\ RawGet("scheme_name") = Absent
    /\ RawGet("scheme_type") = Str("BUY_SIDE")
    /\ Rec.scheme_name = Str("")
    /\ Rec.remarks = Null

\* an amount of a record: absent or non-negative
AmountOk(v) == v = Null \/ (TypeOf(v) = "num" /\ v[2] >= 0)

\* C20: every emitted record has its confidence within [0,1] (in tenths) and each of
\* discount_value, min_order_value, max_discount_cap absent or non-negative, whatever
\* the per-scheme and stage-7 values were.
C20_RangesHold ==
    Emitted =>
        /\ TypeOf(Rec.confidence) = "num"
        /\ Rec.confidence[2] >= 0 /\ Rec.confidence[2] <= 10
        /\ AmountOk(Rec.discount_value)
        /\ AmountOk(Rec.min_order_value)
        /\ AmountOk(Rec.max_discount_cap)

\* C20 witness: stage 7 handed over 1.5 and the dictionary's own 0.9 came out
C20_Witness ==
    /\ Emitted
    /\ p_kind = "dspy"
    /\ p_defaults[1] = Num(15)
    /\ RawGet("confidence") = Num(9)
    /\ Rec.confidence = Num(9)

---------------------------------------------------------------------------
\* Properties of the fingerprint (checked under IdSpec).

\* (scheme_name, duration_start_date, duration_end_date) as scheme.get reads them
Triple(e) ==
    <<DictGet(e[2], "scheme_name", Null), DictGet(e[2], "duration_start_date", Null),
      DictGet(e[2], "duration_end_date", Null)>>

\* the fingerprint run n gave entry i of the result
IdOf(n, i) == rows[n].rows[i].scheme_id

\* C21: the fingerprint is a function of the triple (scheme_name,
\* duration_start_date, duration_end_date) alone: in any two runs of
\* build_scheme_header, two dictionaries that agree on the triple get the same
\* scheme_id, whatever their other fields and whatever the source file; so does
\* one dictionary fingerprinted in two runs.
C21_FingerprintOfTriple ==
    \A n, m \in 1..Len(rows) :
        rows[n].exc = "none" /\ rows[m].exc = "none" =>
            \A i, j \in 1..Len(result) :
                Triple(result[i]) = Triple(result[j]) => IdOf(n, i) = IdOf(m, j)

C21_Witness ==
    /\ Len(rows) = 2 /\ rows[1].exc = "none"
    /\ rows[1].rows[1].scheme_document # rows[2].rows[1].scheme_document
    /\ Triple(result[1]) = Triple(result[2])
    /\ result[1] # result[2]
    /\ "confidence" \in DOMAIN result[1][2] /\ "confidence" \notin DOMAIN result[2][2]
    /\ "global_cap_amount" \in DOMAIN result[1][2]
    /\ "global_cap_amount" \notin DOMAIN result[2][2]
    /\ IdOf(1, 1) = IdOf(2, 2)

---------------------------------------------------------------------------
\* Properties of the texts handed to the stages (checked under ContextSpec).

\* C23: for an empty mail_body, extract returns and its response has no schemes,
\* whatever the subject and whatever the port answers.
C23_EmptyBodyYieldsNoSchemes ==
    mail_body = <<>> /\ pc = "done" =>
        outcome = "returned" /\ response.schemes = <<>>

\* the texts request q handed the port, and the one named f
FieldsOf(q) == {q.context[i] : i \in 1..Len(q.context)}
FieldOf(q, f) == (CHOOSE x \in FieldsOf(q) : x[1] = f)[2]

\* C25: every text a stage hands the reasoning capability is at most 12,000
\* characters long, whatever the lengths of the subject, of the body and of the
\* outputs of the earlier stages; the body of stage 6 in particular.
C25_ContextBounded ==
    \A i \in 1..Len(requests) :
        \A x \in FieldsOf(requests[i]) : TextLen(x[2]) <= BasicWindow

\* the pieces of the body that are table content: the labels and the csv texts
TablePieces == {mail_body[i] : i \in {j \in 1..Len(mail_body) : mail_body[j].src # "full_text"}}

\* C26: when the body text with its tables is longer than the bound, the text
\* SchemeExtractor.extract hands over still holds every table whole, each after
\* its label and in table order; only the body text has lost its tail.
C26_TablesSurviveTruncation ==
    \A i \in 1..Len(requests) :
        requests[i].stage = 0 /\ TextLen(mail_body) > BasicWindow =>
            LET sent == FieldOf(requests[i], "mail_body") IN
            /\ TextLen(sent) <= BasicWindow
            /\ \A p \in TablePieces : \E j \in 1..Len(sent) : sent[j] = p
            /\ \A j, k \in 1..Len(sent) :
                  j < k => \E a, b \in 1..Len(mail_body) :
                              /\ a < b
                              /\ mail_body[a].src = sent[j].src
                              /\ mail_body[b].src = sent[k].src

\* the offset in the body of the first character of the part called src
RECURSIVE StartOf(_, _)
StartOf(body, src) ==
    IF body = <<>> \/ Head(body).src = src THEN 0
    ELSE (Head(body).hi - Head(body).lo) + StartOf(Tail(body), src)

BodySrc == {mail_body[i].src : i \in 1..Len(mail_body)}

\* C30: for a body of at most 6,000 characters the table_data handed to the
\* financial stage and to the vendor stage is empty, and the vendor stage gets no
\* character of the body; for every body, no character at offset 12,000 or
\* beyond is handed to any stage.
C30_TableWindow ==
    \A i \in 1..Len(requests) :
        LET q == requests[i] IN
        /\ q.stage \in {4, 5} /\ TextLen(mail_body) <= TextWindow =>
              FieldOf(q, "table_data") = <<>>
        /\ q.stage = 5 /\ TextLen(mail_body) <= TextWindow =>
              \A x \in FieldsOf(q) : \A j \in 1..Len(x[2]) : x[2][j].src \notin BodySrc
        /\ \A x \in FieldsOf(q) : \A j \in 1..Len(x[2]) :
              x[2][j].src \in BodySrc =>
                  StartOf(mail_body, x[2][j].src) + x[2][j].hi <= TableWindow

C30_Witness ==
    /\ TextLen(mail_body) > TableWindow
    /\ \E i \in 1..Len(requests) :
          /\ requests[i].stage = 5
          /\ requests[i].state = "answered"
          /\ TextLen(FieldOf(requests[i], "table_data")) = TableWindow - TextWindow

---------------------------------------------------------------------------
\* Properties of repeated mapping (checked under RemapSpec).

\* a mapper result with the time of its creation blanked
Untimed(out) ==
    IF out.exc = "none" THEN [out EXCEPT !.rec = [@ EXCEPT !.extracted_at = Null]] ELSE out

---------------------------------------------------------------------------
\* Properties of the trace and of the usage totals (checked under Spec).

\* the artifacts of steps are those of stages 1..Len(steps), in that order
TraceOf(steps) ==
    /\ Len(steps) <= NumStages
    /\ \A i \in 1..Len(steps) : steps[i].step = StepNames[i]

\* C28: all through an attempt, and in the result of forward, cot_steps is a
\* prefix of the artifacts 1_key_facts .. 7_confidence; a step of the attempt
\* leaves it alone or appends one artifact (a new attempt starts a new list); and
\* when stage k fails, the list forward returns holds the artifacts 1..k-1.
C28_TraceGrowsByAppending ==
    [][/\ TraceOf(cot_steps')
       /\ fwd'.status = "returned" =>
            /\ fwd'.cot_steps = cot_steps'
            /\ failure'.kind # "none" => Len(fwd'.cot_steps) = failure'.stage - 1
       /\ \/ cot_steps' = cot_steps
          \/ /\ Len(cot_steps') = Len(cot_steps) + 1
             /\ SubSeq(cot_steps', 1, Len(cot_steps)) = cot_steps
          \/ attempts' = attempts + 1 /\ cot_steps' = <<>>]_vars

C28_Witness ==
    /\ extractor = "dspy" /\ pc = "done"
    /\ failure.stage = 4 /\ failure.kind # "none"
    /\ Len(fwd.cot_steps) = 3
    /\ fwd.cot_steps[3].step = "3_dates"

\* total_tokens of one history entry as get_usage_stats reads it, and the sum over
\* the first n entries
EntryTokens(entry) ==
    IF TypeOf(entry.usage) = "obj"
    THEN DictGet(entry.usage[2], "total_tokens", Num(0))[2]
    ELSE 0
RECURSIVE TokensUpTo(_, _)
TokensUpTo(hist, n) ==
    IF n = 0 THEN 0 ELSE TokensUpTo(hist, n - 1) + EntryTokens(hist[n])

\* the tokens of the calls recorded by attempt a
RECURSIVE TokensOfAttempt(_, _, _)
TokensOfAttempt(hist, a, n) ==
    IF n = 0 THEN 0
    ELSE TokensOfAttempt(hist, a, n - 1)
         + (IF hist[n].call[1] = a THEN EntryTokens(hist[n]) ELSE 0)

UsageReadable == \A i \in 1..Len(history) : TypeOf(history[i].usage) = "obj"

\* a reported tokens_used is the total over every call recorded on the client
\* since it was created, the calls of the earlier attempts included
CumulativeTokens ==
    pc = "done" /\ response.tokens_used # Null =>
        /\ response.tokens_used = Num(TokensUpTo(history, Len(history)))
        /\ \A a \in 1..attempts :
              response.tokens_used[2] >= TokensOfAttempt(history, a, Len(history))
        /\ attempts = 2 =>
              response.tokens_used[2]
                = TokensOfAttempt(history, 1, Len(history))
                  + TokensOfAttempt(history, 2, Len(history))

\* C29 as claimed: tokens_used is the cumulative total of the client, and an
\* attempt that failed with an exception reports no tokens_used.
C29_FailedAttemptReportsNoTokens ==
    /\ CumulativeTokens
    /\ pc = "done" /\ failure.kind # "none" => response.tokens_used = Null

\* C29, amended: tokens_used is the cumulative total of the client; an attempt
\* whose exception reached the except clause of extract (a failed port call of
\* SchemeExtractor, a usage that get_usage_stats cannot read) reports no
\* tokens_used, while a DSPy attempt in which a stage raised still reports the
\* cumulative total.
C29_CumulativeTokens ==
    /\ CumulativeTokens
    /\ pc = "done" /\ extractor = "basic" /\ failure.kind # "none" =>
          response.tokens_used = Null
    /\ pc = "done" /\ ~UsageReadable => response.tokens_used = Null
    /\ pc = "done" /\ extractor = "dspy" /\ failure.kind # "none" /\ UsageReadable =>
          response.tokens_used = Num(TokensUpTo(history, Len(history)))

C29_Witness ==
    /\ pc = "done" /\ attempts = 2 /\ extractor = "dspy"
    /\ failure.kind # "none" /\ failure.stage = 3
    /\ TokensOfAttempt(history, 1, Len(history)) > 0
    /\ TokensOfAttempt(history, 2, Len(history)) > 0
    /\ response.tokens_used
         = Num(TokensOfAttempt(history, 1, Len(history))
               + TokensOfAttempt(history, 2, Len(history)))

---------------------------------------------------------------------------
\* Properties of the shared client (checked under ConcSpec).

\* the calls that returned a completion, over all threads
RECURSIVE RecordedBy(_)
RecordedBy(ts) ==
    IF ts = {} THEN 0
    ELSE LET t == CHOOSE x \in ts : TRUE IN threads[t].recorded + RecordedBy(ts \ {t})

\* C27: in every interleaving of the calls of attempts that share one client, no
\* recorded call is lost; a report of get_usage_stats has num_calls equal to the
\* number of calls completed so far and token totals equal to the sums of the
\* usages of those calls; and the reports, in the order they are returned, never
\* decrease.
C27_AccumulatorSafe ==
    /\ Len(history) = RecordedBy(ThreadIds)
    /\ \A n \in 1..Len(reports) :
          /\ reports[n].num_calls <= Len(history)
          /\ reports[n].total_tokens = TokensUpTo(history, reports[n].num_calls)
    /\ \A n, m \in 1..Len(reports) :
          n < m => /\ reports[n].num_calls <= reports[m].num_calls
                   /\ reports[n].total_tokens <= reports[m].total_tokens

============================================================================
